---- MODULE Spec2Model ----
(***************************************************************************)
(* ExeCap: the company-folder loader (company_folder_loader.py), the       *)
(* repository it fills (LeagueManager) and the reload handler of app.py.   *)
(*                                                                         *)
(* Representation.  A Python str is a sequence of one-character strings,   *)
(* so that the character-level conversions (_slugify, _to_float, _to_int,  *)
(* _to_bool, _parse_date) are computed the way the code computes them.     *)
(* Python None in a text position is NoneV; in an int position NoneInt; a  *)
(* missing date is NoDate.  A date is the integer yyyymmdd.  Amounts are   *)
(* whole numbers (the modelled cells hold no fractional digits).           *)
(***************************************************************************)
EXTENDS Integers, Sequences, FiniteSets, TLC

NoneV == <<"<None>">>

NoneInt == -1

NoDate == 0

LOWER == <<"a","b","c","d","e","f","g","h","i","j","k","l","m",
           "n","o","p","q","r","s","t","u","v","w","x","y","z">>

UPPER == <<"A","B","C","D","E","F","G","H","I","J","K","L","M",
           "N","O","P","Q","R","S","T","U","V","W","X","Y","Z">>

DIGITS == <<"0","1","2","3","4","5","6","7","8","9">>

IsIn(seq, c) == \E i \in 1..Len(seq) : seq[i] = c

IndexOf(seq, c) == CHOOSE i \in 1..Len(seq) : seq[i] = c

\* str.lower(), one character
LowerChar(c) == IF IsIn(UPPER, c) THEN LOWER[IndexOf(UPPER, c)] ELSE c

\* str.lower()
Lower(s) == [i \in 1..Len(s) |-> LowerChar(s[i])]

RECURSIVE LStrip(_, _)
LStrip(s, chars) ==
    IF s # <<>> /\ Head(s) \in chars THEN LStrip(Tail(s), chars) ELSE s

RECURSIVE RStrip(_, _)
RStrip(s, chars) ==
    IF s # <<>> /\ s[Len(s)] \in chars
    THEN RStrip(SubSeq(s, 1, Len(s) - 1), chars)
    ELSE s

\* str.strip(chars)
StripChars(s, chars) == RStrip(LStrip(s, chars), chars)

\* str.strip(): whitespace
Strip(s) == StripChars(s, {" "})

\* str.replace(c, "")
Without(s, chars) == SelectSeq(s, LAMBDA c : c \notin chars)

\* str.isdigit()
IsDigitStr(s) == s # <<>> /\ \A i \in 1..Len(s) : IsIn(DIGITS, s[i])

DigitVal(c) == IndexOf(DIGITS, c) - 1

RECURSIVE DigitsToNat(_)
DigitsToNat(s) ==
    IF s = <<>> THEN 0
    ELSE 10 * DigitsToNat(SubSeq(s, 1, Len(s) - 1)) + DigitVal(s[Len(s)])

\* truthiness of an Optional[str]
Truthy(v) == v # NoneV /\ v # <<>>

\* truthiness of an Optional[int]
TruthyInt(n) == n # NoneInt /\ n # 0

\* [a-z0-9]
IsSlugChar(c) == IsIn(LOWER, c) \/ IsIn(DIGITS, c)

\* re.sub(r"[^a-z0-9]+", "_", s): every run of other characters becomes one "_"
RECURSIVE SubRuns(_, _)
SubRuns(s, inRun) ==
    IF s = <<>> THEN <<>>
    ELSE IF IsSlugChar(Head(s)) THEN <<Head(s)>> \o SubRuns(Tail(s), FALSE)
    ELSE IF inRun THEN SubRuns(Tail(s), TRUE)
    ELSE <<"_">> \o SubRuns(Tail(s), TRUE)

UNKNOWN == <<"u","n","k","n","o","w","n">>

\* variant: the case of the name is kept
_slugify_CaseKept(value) ==
    LET slug == StripChars(SubRuns(value, FALSE), {"_"})
    IN  IF slug # <<>> THEN slug ELSE UNKNOWN

_slugify(value) ==
    LET slug == StripChars(SubRuns(Lower(value), FALSE), {"_"})
    IN  IF slug # <<>> THEN slug ELSE UNKNOWN

NA_WORDS == { <<"n","a">>, <<"n","/","a">>, <<"n","o","n","e">> }

\* float(text) / int(float(text)) on the modelled cells: a digit string
\* parses, anything else raises ValueError.
ParsesAsNumber(text) == IsDigitStr(text)

_to_float(value) ==
    IF value = NoneV THEN 0
    ELSE LET text == Strip(value)
         IN  IF text = <<>> \/ Lower(text) \in NA_WORDS THEN 0
             ELSE LET t2 == Without(text, {",", "$"})
                  IN  IF ParsesAsNumber(t2) THEN DigitsToNat(t2) ELSE 0

_to_int(value) ==
    IF value = NoneV THEN 0
    ELSE LET text == Strip(value)
         IN  IF text = <<>> \/ Lower(text) \in NA_WORDS THEN 0
             ELSE LET t2 == Without(text, {","})
                  IN  IF ParsesAsNumber(t2) THEN DigitsToNat(t2) ELSE 0

TRUE_WORDS == { <<"t","r","u","e">>, <<"t">>, <<"y","e","s">>, <<"y">>, <<"1">> }

_to_bool(value) ==
    IF value = NoneV THEN FALSE
    ELSE Lower(Strip(value)) \in TRUE_WORDS

IsLeap(y) == (y % 4 = 0 /\ y % 100 # 0) \/ y % 400 = 0

DaysInMonth(y, m) ==
    IF m = 2 THEN (IF IsLeap(y) THEN 29 ELSE 28)
    ELSE IF m \in {4, 6, 9, 11} THEN 30 ELSE 31

\* date(y, m, d); NoDate when the constructor raises ValueError
MkDate(y, m, d) ==
    IF y >= 1 /\ m \in 1..12 /\ d >= 1 /\ d <= DaysInMonth(y, m)
    THEN y * 10000 + m * 100 + d
    ELSE NoDate

DateYear(d) == d \div 10000

\* date.fromisoformat / strptime "%Y-%m-%d": YYYY-MM-DD
IsoDate(text) ==
    IF /\ Len(text) = 10
       /\ text[5] = "-" /\ text[8] = "-"
       /\ IsDigitStr(SubSeq(text, 1, 4))
       /\ IsDigitStr(SubSeq(text, 6, 7))
       /\ IsDigitStr(SubSeq(text, 9, 10))
    THEN MkDate(DigitsToNat(SubSeq(text, 1, 4)),
                DigitsToNat(SubSeq(text, 6, 7)),
                DigitsToNat(SubSeq(text, 9, 10)))
    ELSE NoDate

\* strptime "%m/%d/%Y" on the modelled cells: MM/DD/YYYY
UsDate(text) ==
    IF /\ Len(text) = 10
       /\ text[3] = "/" /\ text[6] = "/"
       /\ IsDigitStr(SubSeq(text, 1, 2))
       /\ IsDigitStr(SubSeq(text, 4, 5))
       /\ IsDigitStr(SubSeq(text, 7, 10))
    THEN MkDate(DigitsToNat(SubSeq(text, 7, 10)),
                DigitsToNat(SubSeq(text, 1, 2)),
                DigitsToNat(SubSeq(text, 4, 5)))
    ELSE NoDate

_parse_date(value, fallback) ==
    IF ~Truthy(value) THEN fallback
    ELSE LET text == Strip(value)
         IN  IF IsoDate(text) # NoDate THEN IsoDate(text)
             ELSE IF UsDate(text) # NoDate THEN UsDate(text)
             ELSE fallback

\* date(int(year), 12, 31)
YearEnd(year) == MkDate(DigitsToNat(year), 12, 31)

\* dict.get(key) and dict.get(key, default)
Get(row, key) == IF key \in DOMAIN row THEN row[key] ELSE NoneV

GetD(row, key, default) == IF key \in DOMAIN row THEN row[key] ELSE default

\* key in row and row[key] not in (None, "")
HasValue(row, key) == key \in DOMAIN row /\ Truthy(row[key])

RECURSIVE _get_first(_, _, _)
_get_first(row, keys, default) ==
    IF keys = <<>> THEN default
    ELSE IF HasValue(row, Head(keys)) THEN row[Head(keys)]
    ELSE _get_first(row, Tail(keys), default)

RECURSIVE _get_float(_, _, _)
_get_float(row, keys, default) ==
    IF keys = <<>> THEN default
    ELSE IF HasValue(row, Head(keys)) THEN _to_float(row[Head(keys)])
    ELSE _get_float(row, Tail(keys), default)

RECURSIVE _get_int(_, _, _)
_get_int(row, keys, default) ==
    IF keys = <<>> THEN default
    ELSE IF HasValue(row, Head(keys)) THEN _to_int(row[Head(keys)])
    ELSE _get_int(row, Tail(keys), default)

UpperChar(c) == IF IsIn(LOWER, c) THEN UPPER[IndexOf(LOWER, c)] ELSE c

IsLetter(c) == IsIn(LOWER, c) \/ IsIn(UPPER, c)

\* str.title(): a letter that follows a letter is lower-cased, any other
\* letter is upper-cased
RECURSIVE TitleFrom(_, _)
TitleFrom(s, prevCased) ==
    IF s = <<>> THEN <<>>
    ELSE IF IsLetter(Head(s))
         THEN <<(IF prevCased THEN LowerChar(Head(s)) ELSE UpperChar(Head(s)))>>
              \o TitleFrom(Tail(s), TRUE)
         ELSE <<Head(s)>> \o TitleFrom(Tail(s), FALSE)

\* company_slug.replace("-", " ").title()
DefaultCompanyName(slug) ==
    TitleFrom([i \in 1..Len(slug) |-> IF slug[i] = "-" THEN " " ELSE slug[i]], FALSE)

UNK == <<"U","N","K">>

(***************************************************************************)
(* The repository (LeagueManager).  companies and people are dicts; the    *)
(* record collections are lists.                                           *)
(***************************************************************************)
EmptyMap == [k \in {} |-> NoneV]

NewLeagueManager ==
    [companies            |-> EmptyMap,
     people               |-> EmptyMap,
     executive_comp       |-> <<>>,
     equity_grants        |-> <<>>,
     beneficial_ownership |-> <<>>,
     director_comp        |-> <<>>,
     director_profiles    |-> <<>>,
     director_policies    |-> <<>>,
     source_manifest      |-> <<>>]

\* dict[key] = value
Put(map, key, value) == [k \in DOMAIN map \cup {key} |-> IF k = key THEN value ELSE map[k]]

HasCompany(lm, company_id) == company_id \in DOMAIN lm.companies

\* variant: the lookup never finds the person
HasPerson_Never(lm, person_id) == FALSE

HasPerson(lm, person_id) == person_id \in DOMAIN lm.people

add_company(lm, company) ==
    [lm EXCEPT !.companies = Put(lm.companies, company.company_id, company)]

add_person(lm, person) ==
    [lm EXCEPT !.people = Put(lm.people, person.person_id, person)]

RETIRED == <<"R","e","t","i","r","e","d">>

\* Person.is_free_agent
is_free_agent(person) == person.status = RETIRED

\* the ids of the people get_free_agents returns
get_free_agents(lm) == { id \in DOMAIN lm.people : is_free_agent(lm.people[id]) }

\* the natural key of a compensation record
CompKey(rec) == <<rec.company_id, rec.person_id, rec.fiscal_year_end>>

\* insert-or-replace on a list keyed by CompKey
Upsert(list, rec) ==
    IF \E i \in 1..Len(list) : CompKey(list[i]) = CompKey(rec)
    THEN [i \in 1..Len(list) |-> IF CompKey(list[i]) = CompKey(rec) THEN rec ELSE list[i]]
    ELSE Append(list, rec)

add_executive_comp(lm, rec) ==
    [lm EXCEPT !.executive_comp = Upsert(lm.executive_comp, rec)]

add_director_comp(lm, rec) ==
    [lm EXCEPT !.director_comp = Upsert(lm.director_comp, rec)]

add_equity_grant(lm, rec) ==
    [lm EXCEPT !.equity_grants = Append(lm.equity_grants, rec)]

add_beneficial_ownership(lm, rec) ==
    [lm EXCEPT !.beneficial_ownership = Append(lm.beneficial_ownership, rec)]

add_director_profile(lm, rec) ==
    [lm EXCEPT !.director_profiles = Append(lm.director_profiles, rec)]

add_director_policy(lm, rec) ==
    [lm EXCEPT !.director_policies = Append(lm.director_policies, rec)]

add_source_manifest_entry(lm, rec) ==
    [lm EXCEPT !.source_manifest = Append(lm.source_manifest, rec)]

RECURSIVE SumOf(_, _)
SumOf(list, field) ==
    IF list = <<>> THEN 0 ELSE Head(list)[field] + SumOf(Tail(list), field)

\* the record counts and aggregate totals of a repository
Counts(lm) ==
    [executive_comp       |-> Len(lm.executive_comp),
     director_comp        |-> Len(lm.director_comp),
     equity_grants        |-> Len(lm.equity_grants),
     beneficial_ownership |-> Len(lm.beneficial_ownership),
     director_profiles    |-> Len(lm.director_profiles),
     executive_total      |-> SumOf(lm.executive_comp, "total_comp_usd"),
     director_total       |-> SumOf(lm.director_comp, "total_usd")]

(***************************************************************************)
(* Entity resolution: _ensure_company and _ensure_person.                  *)
(***************************************************************************)
ManifestFiscalYearEnd(manifest_row, year) ==
    _parse_date(Get(manifest_row, "fiscal_year_end"), YearEnd(year))

\* variant: the default display name is the slug as it is
NewCompany_SlugName(company_slug, manifest_row, year) ==
    LET fye == ManifestFiscalYearEnd(manifest_row, year)
    IN  [company_id      |-> company_slug,
         company_name    |-> GetD(manifest_row, "company_name", company_slug),
         ticker          |-> GetD(manifest_row, "ticker", GetD(manifest_row, "stock_ticker", UNK)),
         fiscal_year_end |-> IF fye # NoDate THEN fye ELSE YearEnd(year),
         source_url      |-> GetD(manifest_row, "source_url", <<>>),
         notes           |-> Get(manifest_row, "notes"),
         market_cap_usd  |-> _to_float(Get(manifest_row, "market_cap_usd")),
         revenue_usd     |-> _to_float(Get(manifest_row, "revenue_usd")),
         cap_budget_usd  |-> _to_float(Get(manifest_row, "cap_budget_usd")),
         sector          |-> Get(manifest_row, "sector"),
         founded_year    |-> _to_int(Get(manifest_row, "founded_year"))]

NewCompany(company_slug, manifest_row, year) ==
    LET fye == ManifestFiscalYearEnd(manifest_row, year)
    IN  [company_id      |-> company_slug,
         company_name    |-> GetD(manifest_row, "company_name", DefaultCompanyName(company_slug)),
         ticker          |-> GetD(manifest_row, "ticker", GetD(manifest_row, "stock_ticker", UNK)),
         fiscal_year_end |-> IF fye # NoDate THEN fye ELSE YearEnd(year),
         source_url      |-> GetD(manifest_row, "source_url", <<>>),
         notes           |-> Get(manifest_row, "notes"),
         market_cap_usd  |-> _to_float(Get(manifest_row, "market_cap_usd")),
         revenue_usd     |-> _to_float(Get(manifest_row, "revenue_usd")),
         cap_budget_usd  |-> _to_float(Get(manifest_row, "cap_budget_usd")),
         sector          |-> Get(manifest_row, "sector"),
         founded_year    |-> _to_int(Get(manifest_row, "founded_year"))]

\* x or y on numbers
OrNum(x, y) == IF x # 0 THEN x ELSE y

\* variant: the numeric fields take whatever the manifest cell converts to
UpdatedCompany_NumbersAssigned(company, manifest_row, year) ==
    LET fye == ManifestFiscalYearEnd(manifest_row, year)
    IN  [company EXCEPT
           !.company_name    = GetD(manifest_row, "company_name", company.company_name),
           !.ticker          = GetD(manifest_row, "ticker", company.ticker),
           !.fiscal_year_end = IF fye # NoDate THEN fye ELSE company.fiscal_year_end,
           !.source_url      = GetD(manifest_row, "source_url", company.source_url),
           !.notes           = GetD(manifest_row, "notes", company.notes),
           !.market_cap_usd  = _to_float(Get(manifest_row, "market_cap_usd")),
           !.revenue_usd     = _to_float(Get(manifest_row, "revenue_usd")),
           !.cap_budget_usd  = _to_float(Get(manifest_row, "cap_budget_usd")),
           !.sector          = GetD(manifest_row, "sector", company.sector),
           !.founded_year    = _to_int(Get(manifest_row, "founded_year"))]

UpdatedCompany(company, manifest_row, year) ==
    LET fye == ManifestFiscalYearEnd(manifest_row, year)
    IN  [company EXCEPT
           !.company_name    = GetD(manifest_row, "company_name", company.company_name),
           !.ticker          = GetD(manifest_row, "ticker", company.ticker),
           !.fiscal_year_end = IF fye # NoDate THEN fye ELSE company.fiscal_year_end,
           !.source_url      = GetD(manifest_row, "source_url", company.source_url),
           !.notes           = GetD(manifest_row, "notes", company.notes),
           !.market_cap_usd  = OrNum(_to_float(Get(manifest_row, "market_cap_usd")), company.market_cap_usd),
           !.revenue_usd     = OrNum(_to_float(Get(manifest_row, "revenue_usd")), company.revenue_usd),
           !.cap_budget_usd  = OrNum(_to_float(Get(manifest_row, "cap_budget_usd")), company.cap_budget_usd),
           !.sector          = GetD(manifest_row, "sector", company.sector),
           !.founded_year    = OrNum(_to_int(Get(manifest_row, "founded_year")), company.founded_year)]

\* date(int(year), 12, 31) raises ValueError for the year 0000
EnsureCompanyRaises(year) == YearEnd(year) = NoDate

_ensure_company(lm, company_slug, manifest_row, year) ==
    IF ~HasCompany(lm, company_slug)
    THEN add_company(lm, NewCompany(company_slug, manifest_row, year))
    ELSE [lm EXCEPT !.companies[company_slug] =
              UpdatedCompany(lm.companies[company_slug], manifest_row, year)]

\* slug = person_id or _slugify(full_name)
PersonSlug(person_id, full_name) ==
    IF Truthy(person_id) THEN person_id ELSE _slugify(full_name)

\* the keyword defaults of _ensure_person
PersonDefaults ==
    [current_title    |-> <<>>,
     is_executive     |-> FALSE,
     is_director      |-> FALSE,
     bio_short        |-> NoneV,
     linkedin_url     |-> NoneV,
     photo_url        |-> NoneV,
     years_experience |-> NoneInt,
     education        |-> NoneV,
     status           |-> NoneV]

\* keyword arguments given by the caller over the defaults
Kw(args) == [k \in DOMAIN PersonDefaults |-> IF k \in DOMAIN args THEN args[k] ELSE PersonDefaults[k]]

NewPerson(slug, full_name, a) ==
    [person_id        |-> slug,
     full_name        |-> full_name,
     current_title    |-> a.current_title,
     is_executive     |-> a.is_executive,
     is_director      |-> a.is_director,
     bio_short        |-> a.bio_short,
     linkedin_url     |-> a.linkedin_url,
     photo_url        |-> a.photo_url,
     years_experience |-> a.years_experience,
     education        |-> a.education,
     status           |-> a.status]

\* variant: the role flags are assigned instead of or-ed
MergedPerson_FlagsAssigned(person, a) ==
    [person EXCEPT
       !.current_title    = IF Truthy(a.current_title) THEN a.current_title ELSE @,
       !.bio_short        = IF Truthy(a.bio_short) /\ ~Truthy(@) THEN a.bio_short ELSE @,
       !.linkedin_url     = IF Truthy(a.linkedin_url) /\ ~Truthy(@) THEN a.linkedin_url ELSE @,
       !.photo_url        = IF Truthy(a.photo_url) /\ ~Truthy(@) THEN a.photo_url ELSE @,
       !.years_experience = IF TruthyInt(a.years_experience) /\ ~TruthyInt(@)
                            THEN a.years_experience ELSE @,
       !.education        = IF Truthy(a.education) /\ ~Truthy(@) THEN a.education ELSE @,
       !.status           = IF Truthy(a.status) THEN a.status ELSE @,
       !.is_executive     = a.is_executive,
       !.is_director      = a.is_director]

MergedPerson(person, a) ==
    [person EXCEPT
       !.current_title    = IF Truthy(a.current_title) THEN a.current_title ELSE @,
       !.bio_short        = IF Truthy(a.bio_short) /\ ~Truthy(@) THEN a.bio_short ELSE @,
       !.linkedin_url     = IF Truthy(a.linkedin_url) /\ ~Truthy(@) THEN a.linkedin_url ELSE @,
       !.photo_url        = IF Truthy(a.photo_url) /\ ~Truthy(@) THEN a.photo_url ELSE @,
       !.years_experience = IF TruthyInt(a.years_experience) /\ ~TruthyInt(@)
                            THEN a.years_experience ELSE @,
       !.education        = IF Truthy(a.education) /\ ~Truthy(@) THEN a.education ELSE @,
       !.status           = IF Truthy(a.status) THEN a.status ELSE @,
       !.is_executive     = @ \/ a.is_executive,
       !.is_director      = @ \/ a.is_director]

\* variant: an existing person is replaced by one built from the arguments
_ensure_person_Replacing(lm, person_id, full_name, args) ==
    LET slug == PersonSlug(person_id, full_name)
        a    == Kw(args)
    IN  IF ~HasPerson(lm, slug)
        THEN add_person(lm, NewPerson(slug, full_name, a))
        ELSE [lm EXCEPT !.people[slug] =
                  [NewPerson(slug, full_name, a) EXCEPT
                      !.is_executive = @ \/ lm.people[slug].is_executive,
                      !.is_director  = @ \/ lm.people[slug].is_director]]

_ensure_person(lm, person_id, full_name, args) ==
    LET slug == PersonSlug(person_id, full_name)
        a    == Kw(args)
    IN  IF ~HasPerson(lm, slug)
        THEN add_person(lm, NewPerson(slug, full_name, a))
        ELSE [lm EXCEPT !.people[slug] = MergedPerson(lm.people[slug], a)]

(***************************************************************************)
(* Record importers, one row at a time.  Each takes the repository, the    *)
(* id of the resolved company (the code holds a reference to the Company   *)
(* object that lives in the repository) and the row, and yields the        *)
(* repository after the row.                                               *)
(***************************************************************************)
RECURSIVE NatToDigits(_)
NatToDigits(n) ==
    IF n < 10 THEN <<DIGITS[n + 1]>>
    ELSE NatToDigits(n \div 10) \o <<DIGITS[(n % 10) + 1]>>

PROXY_STATEMENT == <<" ","P","r","o","x","y">>

PLAN_BASED_AWARDS == <<" ","P","l","a","n">>

DIRECTOR_COMPENSATION == <<" ","D","i","r","C","o","m","p">>

DIRECTOR == <<"D","i","r","e","c","t","o","r">>

RSU == <<"R","S","U">>

\* str.upper()
Upper(s) == [i \in 1..Len(s) |-> UpperChar(s[i])]

\* the in-place refinement of the company from an executive-compensation row
RefinedCompany(company, row) ==
    LET fiscal_year_row == _parse_date(Get(row, "fiscal_year_end"), NoDate)
    IN  [company EXCEPT
           !.company_name    = IF Truthy(Get(row, "company_name")) THEN row["company_name"] ELSE @,
           !.ticker          = IF Truthy(Get(row, "ticker")) THEN row["ticker"] ELSE @,
           !.source_url      = IF Truthy(Get(row, "source_url")) THEN row["source_url"] ELSE @,
           !.fiscal_year_end = IF fiscal_year_row # NoDate THEN fiscal_year_row ELSE @]

ExecutivePersonArgs(row) ==
    [current_title    |-> _get_first(row, <<"current_title", "title", "position">>, <<>>),
     is_executive     |-> TRUE,
     bio_short        |-> Get(row, "bio_short"),
     linkedin_url     |-> Get(row, "linkedin_url"),
     photo_url        |-> Get(row, "photo_url"),
     years_experience |-> _get_int(row, <<"years_experience", "experience_years">>, 0),
     education        |-> _get_first(row, <<"education", "education_background">>, NoneV),
     status           |-> _get_first(row, <<"status", "employment_status">>, NoneV)]

ExecutiveFullName(row) == _get_first(row, <<"full_name", "executive_name", "name">>, <<>>)

\* variant: the total is always the sum of the components
ExecutiveCompensationRecord_AlwaysSummed(company_id, year, row) ==
    LET fiscal_year == _parse_date(Get(row, "fiscal_year_end"), YearEnd(year))
        salary_usd == _get_float(row, <<"salary_usd", "base_salary_usd", "base_salary", "salary">>, 0)
        bonus_usd == _get_float(row, <<"bonus_usd", "cash_bonus_usd", "bonus", "cash_bonus">>, 0)
        stock_awards_usd == _get_float(row, <<"stock_awards_usd", "stock_awards_fair_value_usd",
                                              "stock_awards", "stock_awards_value">>, 0)
        option_awards_usd == _get_float(row, <<"option_awards_usd", "options_awards_usd",
                                               "option_awards", "options_awards">>, 0)
        non_equity_usd == _get_float(row, <<"non_equity_incentive_usd",
                                            "non_equity_incentive_plan_usd", "non_equity_incentive">>, 0)
        pension_change_usd == _get_float(row, <<"pension_change_usd",
                                                "change_in_pension_and_defcomp_earnings_usd",
                                                "pension_change">>, 0)
        all_other_usd == _get_float(row, <<"all_other_comp_usd", "all_other_compensation_usd",
                                           "other_compensation_usd", "all_other_comp">>, 0)
        total_comp == _get_float(row, <<"total_comp_usd", "total_compensation_usd",
                                        "total_compensation">>, 0)
    IN  [company_id               |-> company_id,
         person_id                |-> PersonSlug(Get(row, "person_id"), ExecutiveFullName(row)),
         fiscal_year_end          |-> IF fiscal_year # NoDate THEN fiscal_year ELSE YearEnd(year),
         salary_usd               |-> salary_usd,
         bonus_usd                |-> bonus_usd,
         stock_awards_usd         |-> stock_awards_usd,
         option_awards_usd        |-> option_awards_usd,
         non_equity_incentive_usd |-> non_equity_usd,
         pension_change_usd       |-> pension_change_usd,
         all_other_comp_usd       |-> all_other_usd,
         total_comp_usd           |-> IF TRUE
                                      THEN salary_usd + bonus_usd + stock_awards_usd
                                           + option_awards_usd + non_equity_usd
                                           + pension_change_usd + all_other_usd
                                      ELSE total_comp,
         source                   |-> GetD(row, "source", year \o PROXY_STATEMENT)]

ExecutiveCompensationRecord(company_id, year, row) ==
    LET fiscal_year == _parse_date(Get(row, "fiscal_year_end"), YearEnd(year))
        salary_usd == _get_float(row, <<"salary_usd", "base_salary_usd", "base_salary", "salary">>, 0)
        bonus_usd == _get_float(row, <<"bonus_usd", "cash_bonus_usd", "bonus", "cash_bonus">>, 0)
        stock_awards_usd == _get_float(row, <<"stock_awards_usd", "stock_awards_fair_value_usd",
                                              "stock_awards", "stock_awards_value">>, 0)
        option_awards_usd == _get_float(row, <<"option_awards_usd", "options_awards_usd",
                                               "option_awards", "options_awards">>, 0)
        non_equity_usd == _get_float(row, <<"non_equity_incentive_usd",
                                            "non_equity_incentive_plan_usd", "non_equity_incentive">>, 0)
        pension_change_usd == _get_float(row, <<"pension_change_usd",
                                                "change_in_pension_and_defcomp_earnings_usd",
                                                "pension_change">>, 0)
        all_other_usd == _get_float(row, <<"all_other_comp_usd", "all_other_compensation_usd",
                                           "other_compensation_usd", "all_other_comp">>, 0)
        total_comp == _get_float(row, <<"total_comp_usd", "total_compensation_usd",
                                        "total_compensation">>, 0)
    IN  [company_id               |-> company_id,
         person_id                |-> PersonSlug(Get(row, "person_id"), ExecutiveFullName(row)),
         fiscal_year_end          |-> IF fiscal_year # NoDate THEN fiscal_year ELSE YearEnd(year),
         salary_usd               |-> salary_usd,
         bonus_usd                |-> bonus_usd,
         stock_awards_usd         |-> stock_awards_usd,
         option_awards_usd        |-> option_awards_usd,
         non_equity_incentive_usd |-> non_equity_usd,
         pension_change_usd       |-> pension_change_usd,
         all_other_comp_usd       |-> all_other_usd,
         total_comp_usd           |-> IF total_comp = 0
                                      THEN salary_usd + bonus_usd + stock_awards_usd
                                           + option_awards_usd + non_equity_usd
                                           + pension_change_usd + all_other_usd
                                      ELSE total_comp,
         source                   |-> GetD(row, "source", year \o PROXY_STATEMENT)]

\* variant: the importer appends the record to the list itself
ImportExecutiveCompensationRow_Appending(lm, company_id, year, row) ==
    IF ~Truthy(ExecutiveFullName(row)) THEN lm
    ELSE LET lm1 == _ensure_person(lm, Get(row, "person_id"), ExecutiveFullName(row),
                                   ExecutivePersonArgs(row))
             lm2 == [lm1 EXCEPT !.companies[company_id] = RefinedCompany(@, row)]
         IN  [lm2 EXCEPT !.executive_comp =
                  Append(@, ExecutiveCompensationRecord(company_id, year, row))]

\* one iteration of the loop of _import_executive_compensation
ImportExecutiveCompensationRow(lm, company_id, year, row) ==
    IF ~Truthy(ExecutiveFullName(row)) THEN lm
    ELSE LET lm1 == _ensure_person(lm, Get(row, "person_id"), ExecutiveFullName(row),
                                   ExecutivePersonArgs(row))
             lm2 == [lm1 EXCEPT !.companies[company_id] = RefinedCompany(@, row)]
         IN  add_executive_comp(lm2, ExecutiveCompensationRecord(company_id, year, row))

EquityPersonArgs(row) ==
    [current_title |-> _get_first(row, <<"current_title", "title">>, <<>>),
     is_executive  |-> TRUE]

\* row.get("award_type", "").upper() raises AttributeError on None
EquityRowRaises(row) ==
    /\ Truthy(ExecutiveFullName(row))
    /\ "award_type" \in DOMAIN row
    /\ row["award_type"] = NoneV

EquityGrantRecord(company, row) ==
    LET grant_date == _parse_date(Get(row, "grant_date"), NoDate)
        target0 == _get_int(row, <<"target_units", "rsu_units">>, 0)
        target_units == IF Upper(GetD(row, "award_type", <<>>)) = RSU /\ target0 = 0
                        THEN _get_int(row, <<"rsu_units">>, 0)
                        ELSE target0
    IN  [company_id                |-> company.company_id,
         person_id                 |-> PersonSlug(Get(row, "person_id"), ExecutiveFullName(row)),
         grant_date                |-> IF grant_date # NoDate THEN grant_date
                                       ELSE company.fiscal_year_end,
         award_type                |-> GetD(row, "type", GetD(row, "award_type", <<>>)),
         threshold_units           |-> _get_int(row, <<"threshold_units">>, 0),
         target_units              |-> target_units,
         max_units                 |-> _get_int(row, <<"max_units">>, 0),
         grant_date_fair_value_usd |-> _get_float(row, <<"grant_date_fair_value_usd",
                                                         "grant_date_value_usd">>, 0),
         vesting_schedule_short    |-> GetD(row, "vesting_schedule_short",
                                            Get(row, "vesting_schedule")),
         source                    |-> GetD(row, "source",
                                            NatToDigits(DateYear(company.fiscal_year_end))
                                            \o PLAN_BASED_AWARDS)]

\* one iteration of the loop of _import_equity_grants; when the row raises,
\* the person has already been resolved
ImportEquityGrantRow(lm, company_id, row) ==
    IF ~Truthy(ExecutiveFullName(row)) THEN lm
    ELSE LET lm1 == _ensure_person(lm, Get(row, "person_id"), ExecutiveFullName(row),
                                   EquityPersonArgs(row))
         IN  IF EquityRowRaises(row) THEN lm1
             ELSE add_equity_grant(lm1, EquityGrantRecord(lm1.companies[company_id], row))

OwnershipFullName(row) == _get_first(row, <<"full_name", "name">>, <<>>)

OwnershipPersonArgs(row) ==
    [current_title |-> _get_first(row, <<"current_title", "role", "title">>, <<>>),
     is_executive  |-> _to_bool(Get(row, "is_executive")),
     is_director   |-> _to_bool(Get(row, "is_director"))]

BeneficialOwnershipRecordOf(company, person, row) ==
    [company_id          |-> company.company_id,
     person_id           |-> person.person_id,
     role                |-> _get_first(row, <<"role", "title">>, person.current_title),
     total_shares        |-> _get_int(row, <<"total_shares", "total_shares_owned",
                                             "total_beneficial_ownership">>, 0),
     sole_voting_power   |-> _get_int(row, <<"sole_voting_power", "direct_or_indirect_sole_voting",
                                             "ownership_of_common_stock">>, 0),
     shared_voting_power |-> _get_int(row, <<"shared_voting_power", "indirect_shared_voting",
                                             "equity_awards_exercisable_or_vesting_within_60d">>, 0),
     percent_of_class    |-> _get_float(row, <<"percent_of_class", "percent_class">>, 0),
     as_of_date          |-> _parse_date(Get(row, "as_of_date"), company.fiscal_year_end),
     notes               |-> Get(row, "notes")]

\* one iteration of the loop of _import_beneficial_ownership
ImportBeneficialOwnershipRow(lm, company_id, row) ==
    IF ~Truthy(OwnershipFullName(row)) THEN lm
    ELSE LET slug == PersonSlug(Get(row, "person_id"), OwnershipFullName(row))
             lm1 == _ensure_person(lm, Get(row, "person_id"), OwnershipFullName(row),
                                   OwnershipPersonArgs(row))
         IN  add_beneficial_ownership(lm1,
                 BeneficialOwnershipRecordOf(lm1.companies[company_id], lm1.people[slug], row))

DirectorFullName(row) == _get_first(row, <<"full_name", "director_name", "name">>, <<>>)

DirectorPersonArgs(row) ==
    [current_title |-> _get_first(row, <<"role", "title">>, DIRECTOR),
     is_director   |-> TRUE]

DirectorCompensationRecord(company, row) ==
    [company_id         |-> company.company_id,
     person_id          |-> PersonSlug(Get(row, "person_id"), DirectorFullName(row)),
     fiscal_year_end    |-> _parse_date(Get(row, "fiscal_year_end"), company.fiscal_year_end),
     fees_cash_usd      |-> _get_float(row, <<"fees_cash_usd", "cash_fees_usd",
                                              "cash_retainers_usd">>, 0),
     stock_awards_usd   |-> _get_float(row, <<"stock_awards_usd", "stock_grant_usd">>, 0),
     all_other_comp_usd |-> _get_float(row, <<"all_other_comp_usd",
                                              "all_other_compensation_usd">>, 0),
     total_usd          |-> _get_float(row, <<"total_usd", "total_comp_usd",
                                              "total_compensation_usd">>, 0),
     source             |-> GetD(row, "source",
                                 NatToDigits(DateYear(company.fiscal_year_end))
                                 \o DIRECTOR_COMPENSATION)]

\* variant: the importer appends the record to the list itself
ImportDirectorCompensationRow_Appending(lm, company_id, row) ==
    IF ~Truthy(DirectorFullName(row)) THEN lm
    ELSE LET lm1 == _ensure_person(lm, Get(row, "person_id"), DirectorFullName(row),
                                   DirectorPersonArgs(row))
         IN  [lm1 EXCEPT !.director_comp =
                  Append(@, DirectorCompensationRecord(lm1.companies[company_id], row))]

\* one iteration of the loop of _import_director_compensation
ImportDirectorCompensationRow(lm, company_id, row) ==
    IF ~Truthy(DirectorFullName(row)) THEN lm
    ELSE LET lm1 == _ensure_person(lm, Get(row, "person_id"), DirectorFullName(row),
                                   DirectorPersonArgs(row))
         IN  add_director_comp(lm1, DirectorCompensationRecord(lm1.companies[company_id], row))

DirectorProfileRecord(company, person, row) ==
    [company_id                |-> company.company_id,
     person_id                 |-> person.person_id,
     role                      |-> _get_first(row, <<"role", "title">>, person.current_title),
     independent               |-> IF "independent" \in DOMAIN row THEN _to_bool(row["independent"])
                                   ELSE IF "is_independent" \in DOMAIN row
                                        THEN _to_bool(row["is_independent"])
                                   ELSE TRUE,
     director_since            |-> _get_int(row, <<"director_since">>, NoneInt),
     lead_independent_director |-> IF "lead_independent_director" \in DOMAIN row
                                   THEN _to_bool(row["lead_independent_director"])
                                   ELSE IF "lead_independent" \in DOMAIN row
                                        THEN _to_bool(row["lead_independent"])
                                   ELSE FALSE,
     committees                |-> Get(row, "committees"),
     primary_occupation        |-> GetD(row, "primary_occupation", Get(row, "occupation")),
     other_public_boards       |-> Get(row, "other_public_boards")]

\* one iteration of the loop of _import_director_profiles
ImportDirectorProfileRow(lm, company_id, row) ==
    IF ~Truthy(DirectorFullName(row)) THEN lm
    ELSE LET slug == PersonSlug(Get(row, "person_id"), DirectorFullName(row))
             lm1 == _ensure_person(lm, Get(row, "person_id"), DirectorFullName(row),
                                   DirectorPersonArgs(row))
         IN  add_director_profile(lm1,
                 DirectorProfileRecord(lm1.companies[company_id], lm1.people[slug], row))

PolicyComponent(row) == _get_first(row, <<"component", "policy_item">>, <<>>)

\* one iteration of the loop of _import_director_policy_file
ImportDirectorPolicyRow(lm, company_id, row) ==
    IF ~Truthy(PolicyComponent(row)) THEN lm
    ELSE add_director_policy(lm,
             [company_id |-> company_id,
              component  |-> PolicyComponent(row),
              amount_usd |-> _get_float(row, <<"amount_usd", "value_usd">>, 0),
              unit       |-> Get(row, "unit"),
              notes      |-> Get(row, "notes")])

\* date.today()
Today == 20261105

\* x or y on texts
OrText(x, y) == IF Truthy(x) THEN x ELSE y

\* one iteration of the loop of _import_manifest
ImportManifestRow(lm, company_slug, row) ==
    add_source_manifest_entry(lm,
        [company_id   |-> company_slug,
         file_path    |-> OrText(Get(row, "file_path"), OrText(Get(row, "file"), <<>>)),
         description  |-> OrText(Get(row, "description"), OrText(Get(row, "what"), <<>>)),
         last_updated |-> _parse_date(Get(row, "last_updated"), Today)])

\* dict.setdefault(key, value)
SetDefault(map, key, value) == IF key \in DOMAIN map THEN map ELSE Put(map, key, value)

\* the dict _import_manifest returns: the first row (or {}) with its four setdefaults
ManifestOf(rows) ==
    LET m0 == IF rows # <<>> THEN rows[1] ELSE EmptyMap
        m1 == SetDefault(m0, "company_name", Get(m0, "name"))
        m2 == SetDefault(m1, "ticker", Get(m1, "symbol"))
        m3 == SetDefault(m2, "fiscal_year_end", Get(m2, "year_end"))
    IN  SetDefault(m3, "source_url", Get(m3, "source_url"))

(***************************************************************************)
(* The object store.  A blob name is held as the list of its "/"-separated *)
(* segments (the result of blob.name.split("/")); a blob carries the rows  *)
(* csv.DictReader yields for it.                                           *)
(***************************************************************************)
\* the characters of the modelled texts in code-point order
CODEPOINTS == <<" ", "!", "$", ",", "-", ".", "/">> \o DIGITS \o UPPER \o <<"_">> \o LOWER

CharLess(a, b) == IndexOf(CODEPOINTS, a) < IndexOf(CODEPOINTS, b)

\* a < b on str
RECURSIVE TextLess(_, _)
TextLess(a, b) ==
    IF b = <<>> THEN FALSE
    ELSE IF a = <<>> THEN TRUE
    ELSE IF Head(a) = Head(b) THEN TextLess(Tail(a), Tail(b))
    ELSE CharLess(Head(a), Head(b))

\* min / max of a non-empty set of str
MinText(S) == CHOOSE m \in S : \A o \in S : o = m \/ TextLess(m, o)

MaxText(S) == CHOOSE m \in S : \A o \in S : o = m \/ TextLess(o, m)

\* sorted(set)
RECURSIVE Sorted(_)
Sorted(S) == IF S = {} THEN <<>> ELSE <<MinText(S)>> \o Sorted(S \ {MinText(S)})

COMPANIES == <<"c","o","m","p","a","n","i","e","s">>

\* name.startswith(prefix), the prefix given as its segments before the final "/"
HasPrefix(name, prefix) ==
    Len(name) > Len(prefix) /\ SubSeq(name, 1, Len(prefix)) = prefix

\* bucket.list_blobs(prefix=...): the matching blobs, in the store's listing order
ListBlobs(store, prefix) == SelectSeq(store, LAMBDA blob : HasPrefix(blob.name, prefix))

Range(seq) == { seq[i] : i \in 1..Len(seq) }

list_company_folders(store) ==
    Sorted({ blob.name[2] : blob \in
               { b \in Range(ListBlobs(store, <<COMPANIES>>)) :
                    Len(b.name) >= 2 /\ b.name[1] = COMPANIES /\ b.name[2] # <<>> } })

\* variant: every numeric segment counts as a year, whatever its length
list_years_for_company_AnyLength(store, company_slug) ==
    Sorted({ blob.name[3] : blob \in
               { b \in Range(ListBlobs(store, <<COMPANIES, company_slug>>)) :
                    /\ Len(b.name) >= 3 /\ b.name[1] = COMPANIES /\ b.name[2] = company_slug
                    /\ IsDigitStr(b.name[3]) } })

list_years_for_company(store, company_slug) ==
    Sorted({ blob.name[3] : blob \in
               { b \in Range(ListBlobs(store, <<COMPANIES, company_slug>>)) :
                    /\ Len(b.name) >= 3 /\ b.name[1] = COMPANIES /\ b.name[2] = company_slug
                    /\ IsDigitStr(b.name[3]) /\ Len(b.name[3]) = 4 } })

\* variant: without a requested year the first of the sorted years is taken
TargetYears_Oldest(years, specific_year, load_all_years) ==
    IF Truthy(specific_year) /\ specific_year \in Range(years) THEN <<specific_year>>
    ELSE IF load_all_years THEN years
    ELSE IF years # <<>> THEN <<years[1]>>
    ELSE <<>>

\* the target years load_all_company_data selects for one company
TargetYears(years, specific_year, load_all_years) ==
    IF Truthy(specific_year) /\ specific_year \in Range(years) THEN <<specific_year>>
    ELSE IF load_all_years THEN years
    ELSE IF years # <<>> THEN <<MaxText(Range(years))>>
    ELSE <<>>

\* blob.name.split("/")[-1].lower()
FileName(blob) == Lower(blob.name[Len(blob.name)])

\* str.endswith(suffix)
EndsWith(s, suffix) ==
    Len(s) >= Len(suffix) /\ SubSeq(s, Len(s) - Len(suffix) + 1, Len(s)) = suffix

\* sub in s
Contains(s, sub) ==
    \E i \in 1..(Len(s) - Len(sub) + 1) : SubSeq(s, i, i + Len(sub) - 1) = sub

CSV_SUFFIX == <<".","c","s","v">>

MANIFEST_SUFFIX == <<"_","m","a","n","i","f","e","s","t",".","c","s","v">>

IsManifest(filename) == EndsWith(filename, MANIFEST_SUFFIX)

\* the branch the second loop of load_company_year takes for a file
Classify(filename) ==
    IF ~EndsWith(filename, CSV_SUFFIX) THEN "not_csv"
    ELSE IF IsManifest(filename) THEN "manifest"
    ELSE IF Contains(filename, <<"e","x","e","c","u","t","i","v","e","_","c","o","m","p","e","n","s","a","t","i","o","n">>) THEN "executive_compensation"
    ELSE IF Contains(filename, <<"e","x","e","c","u","t","i","v","e","_","e","q","u","i","t","y","_","g","r","a","n","t","s">>) THEN "equity_grants"
    ELSE IF Contains(filename, <<"b","e","n","e","f","i","c","i","a","l","_","o","w","n","e","r","s","h","i","p">>) THEN "beneficial_ownership"
    ELSE IF Contains(filename, <<"d","i","r","e","c","t","o","r","_","c","o","m","p","e","n","s","a","t","i","o","n">>) THEN "director_compensation"
    ELSE IF \/ Contains(filename, <<"d","i","r","e","c","t","o","r","_","c","o","m","p","_","p","o","l","i","c","y">>)
            \/ Contains(filename, <<"d","i","r","e","c","t","o","r","_","c","o","m","p","e","n","s","a","t","i","o","n","_","p","o","l","i","c","y">>) THEN "director_policy"
    ELSE IF \/ Contains(filename, <<"d","i","r","e","c","t","o","r","s","_","p","r","o","f","i","l","e","s">>)
            \/ Contains(filename, <<"d","i","r","e","c","t","o","r","_","p","r","o","f","i","l","e","s">>) THEN "director_profiles"
    ELSE "unrecognized"

\* the first manifest blob of a listing, 0 when there is none
RECURSIVE FirstManifest(_, _)
FirstManifest(blobs, i) ==
    IF i > Len(blobs) THEN 0
    ELSE IF IsManifest(FileName(blobs[i])) THEN i
    ELSE FirstManifest(blobs, i + 1)

\* the cell clean-up of _read_csv_blob: every str value is stripped
StripRow(row) == [k \in DOMAIN row |-> IF row[k] = NoneV THEN NoneV ELSE Strip(row[k])]

StripRows(rows) == [i \in 1..Len(rows) |-> StripRow(rows[i])]

(***************************************************************************)
(* Store contents the behaviours start from.  A store is a concatenation   *)
(* of partition variants and never changes during a behaviour.             *)
(***************************************************************************)
ACME == <<"a","c","m","e">>

BIGCO == <<"b","i","g","-","c","o">>

Y2023 == <<"2","0","2","3">>

Y2024 == <<"2","0","2","4">>

JANE == <<"J","a","n","e"," ","D","o","e">>

Blob(slug, year, file, rows) == [name |-> <<COMPANIES, slug, year, file>>, rows |-> rows]

ManifestFull ==
    [company_name |-> <<"A","c","m","e"," ","C","o","r","p">>, ticker |-> <<"A","C","M">>, fiscal_year_end |-> <<"2","0","2","3","-","0","9","-","3","0">>,
     source_url |-> <<"u","1">>, notes |-> <<"n","1">>, sector |-> <<"T","e","c","h">>,
     market_cap_usd |-> <<"$","1",",","2","0","0">>, revenue_usd |-> <<"5","0","0">>, cap_budget_usd |-> <<"9","0","0">>,
     founded_year |-> <<"1","9","9","0">>, file_path |-> <<"f",".","c","s","v">>, description |-> <<"d">>]

\* no name column, empty ticker and sector, unparseable numbers, no revenue column
ManifestSparse ==
    [ticker |-> <<>>, sector |-> <<>>, market_cap_usd |-> <<"n","/","a">>, cap_budget_usd |-> <<>>,
     founded_year |-> <<"a","b","c">>, file |-> <<"g",".","c","s","v">>]

ManifestRich ==
    [name |-> <<"A","c","m","e"," ","I","n","c">>, symbol |-> <<"A","C","I">>, year_end |-> <<"0","6","/","3","0","/","2","0","2","4">>,
     market_cap_usd |-> <<"2",",","0","0","0">>, revenue_usd |-> <<" ","0"," ">>, founded_year |-> <<"1","9","9","1">>,
     notes |-> NoneV]

ExecJane ==
    [full_name |-> JANE, title |-> <<"C","E","O">>, status |-> <<"R","e","t","i","r","e","d">>, bio_short |-> <<"b","i","o">>,
     linkedin_url |-> <<"l","i">>, years_experience |-> <<"2","0">>, education |-> <<"M","B","A">>,
     salary_usd |-> <<"5","0","0">>, bonus |-> <<"1","0","0">>]

\* the same person under another spelling, silent on title and status
ExecJaneAgain ==
    [name |-> <<" ","J","A","N","E","-","-","D","O","E"," ">>, title |-> <<>>, status |-> NoneV, bio_short |-> <<"b","i","o","2">>,
     years_experience |-> <<"0">>, education |-> <<>>, salary |-> <<"7","0","0">>,
     total_comp_usd |-> <<"$","1",",","0","0","0">>]

\* dated into the previous fiscal year, and carrying company fields
ExecJaneRestated ==
    [full_name |-> JANE, fiscal_year_end |-> <<"1","2","/","3","1","/","2","0","2","3">>, salary_usd |-> <<"6","0","0">>,
     company_name |-> <<"A","c","m","e"," ","I","n","t","l">>, current_title |-> <<"C","h","a","i","r">>, status |-> <<"A","c","t","i","v","e">>,
     years_experience |-> <<"3","0">>, photo_url |-> <<"p","h">>]

ExecNameless == [title |-> <<"C","F","O">>, salary_usd |-> <<"5","0">>]

OwnJane ==
    [full_name |-> JANE, is_director |-> <<"Y","e","s">>, is_executive |-> <<"f","a","l","s","e">>,
     total_shares |-> <<"1",",","0","0","0">>, as_of_date |-> <<>>]

DirJane == [director_name |-> JANE, total_usd |-> <<"3","0","0">>]

DirJaneAgain == [full_name |-> JANE, role |-> <<"L","e","a","d">>, total_usd |-> <<"4","0","0">>, fees_cash_usd |-> <<"4","0">>]

GrantJane == [executive_name |-> JANE, award_type |-> <<"r","s","u">>, rsu_units |-> <<"1","0">>]

\* a row shorter than the header: award_type is None
GrantShort == [executive_name |-> <<"R","o","b"," ","R","o","e">>, award_type |-> NoneV]

ProfileRob == [name |-> <<"R","o","b"," ","R","o","e">>, independent |-> <<"n","o">>, director_since |-> <<"2","0","1","9">>]

PolicyRetainer == [component |-> <<"R","e","t","a","i","n","e","r">>, amount_usd |-> <<"5","0">>]

\* a policy row that names its component in a name column as well
PolicyChair == [name |-> <<"C","h","a","i","r"," ","f","e","e">>, component |-> <<"C","h","a","i","r"," ","f","e","e">>, amount_usd |-> <<"2","5">>]

\* a row whose total column says 0 next to a salary, with a lower-case status
ExecJohn ==
    [full_name |-> <<"J","o","h","n"," ","R","o","e">>, person_id |-> <<"p","1">>, salary_usd |-> <<"1","0","0">>,
     total_comp_usd |-> <<>>, total_compensation |-> <<"0">>,
     status |-> <<"r","e","t","i","r","e","d">>]

Acme2023Full ==
    << Blob(ACME, Y2023, <<"a","c","m","e","_","m","a","n","i","f","e","s","t",".","c","s","v">>, <<ManifestFull>>),
       Blob(ACME, Y2023, <<"a","c","m","e","_","e","x","e","c","u","t","i","v","e","_","c","o","m","p","e","n","s","a","t","i","o","n",".","c","s","v">>, <<ExecJane, ExecNameless, ExecJaneAgain>>),
       Blob(ACME, Y2023, <<"a","c","m","e","_","b","e","n","e","f","i","c","i","a","l","_","o","w","n","e","r","s","h","i","p",".","c","s","v">>, <<OwnJane>>) >>

Acme2024Sparse ==
    << Blob(ACME, Y2024, <<"a","c","m","e","_","d","i","r","e","c","t","o","r","_","c","o","m","p","e","n","s","a","t","i","o","n",".","c","s","v">>, <<DirJane, DirJaneAgain>>),
       Blob(ACME, Y2024, <<"a","c","m","e","_","e","x","e","c","u","t","i","v","e","_","c","o","m","p","e","n","s","a","t","i","o","n",".","c","s","v">>, <<ExecJaneRestated>>),
       Blob(ACME, Y2024, <<"a","c","m","e","_","e","x","e","c","u","t","i","v","e","_","e","q","u","i","t","y","_","g","r","a","n","t","s",".","c","s","v">>, <<GrantJane>>),
       Blob(ACME, Y2024, <<"a","c","m","e","_","m","a","n","i","f","e","s","t",".","c","s","v">>, <<ManifestSparse>>),
       Blob(ACME, Y2024, <<"r","e","a","d","m","e",".","t","x","t">>, <<>>) >>

Acme2024Rich ==
    << Blob(ACME, Y2024, <<"A","C","M","E","_","M","a","n","i","f","e","s","t",".","c","s","v">>, <<ManifestRich>>),
       Blob(ACME, Y2024, <<"a","c","m","e","_","e","x","e","c","u","t","i","v","e","_","c","o","m","p","e","n","s","a","t","i","o","n",".","c","s","v">>, <<ExecJaneAgain, ExecJane>>),
       Blob(ACME, Y2024, <<"a","c","m","e","_","d","i","r","e","c","t","o","r","_","p","r","o","f","i","l","e","s",".","c","s","v">>, <<ProfileRob>>),
       Blob(ACME, Y2024, <<"a","c","m","e","_","d","i","r","e","c","t","o","r","_","c","o","m","p","_","p","o","l","i","c","y",".","c","s","v">>, <<PolicyRetainer>>),
       Blob(ACME, Y2024, <<"a","c","m","e","_","b","e","n","e","f","i","c","i","a","l","_","o","w","n","e","r","s","h","i","p",".","c","s","v">>, <<OwnJane>>) >>

Acme2024Bare ==
    << Blob(ACME, Y2024, <<"a","_","e","x","e","c","u","t","i","v","e","_","c","o","m","p","e","n","s","a","t","i","o","n",".","c","s","v">>, <<ExecJane>>),
       Blob(ACME, Y2024, <<"b","_","d","i","r","e","c","t","o","r","_","c","o","m","p","e","n","s","a","t","i","o","n",".","c","s","v">>, <<DirJane>>),
       Blob(ACME, Y2024, <<"c","_","e","x","e","c","u","t","i","v","e","_","e","q","u","i","t","y","_","g","r","a","n","t","s",".","c","s","v">>, <<GrantJane>>),
       Blob(ACME, Y2024, <<"n","o","t","e","s",".","c","s","v">>, <<>>) >>

Bigco2024Ok ==
    << Blob(BIGCO, Y2024, <<"b","i","g","c","o","_","e","x","e","c","u","t","i","v","e","_","c","o","m","p","e","n","s","a","t","i","o","n",".","c","s","v">>, <<ExecJohn>>),
       Blob(BIGCO, Y2024, <<"b","i","g","c","o","_","d","i","r","e","c","t","o","r","_","c","o","m","p","e","n","s","a","t","i","o","n","_","p","o","l","i","c","y",".","c","s","v">>, <<PolicyRetainer, PolicyChair>>) >>

Bigco2024Short ==
    << Blob(BIGCO, Y2024, <<"b","i","g","c","o","_","e","x","e","c","u","t","i","v","e","_","e","q","u","i","t","y","_","g","r","a","n","t","s",".","c","s","v">>, <<GrantShort, GrantJane>>),
       Blob(BIGCO, Y2024, <<"b","i","g","c","o","_","e","x","e","c","u","t","i","v","e","_","c","o","m","p","e","n","s","a","t","i","o","n",".","c","s","v">>, <<ExecJohn>>) >>

\* objects of acme under folders that are not years
AcmeStray ==
    << Blob(ACME, <<"n","o","t","a","y","e","a","r">>, <<"f","i","l","e",".","c","s","v">>, <<ExecJohn>>),
       Blob(ACME, <<"2","4">>, <<"a","c","m","e","_","e","x","e","c","u","t","i","v","e","_","c","o","m","p","e","n","s","a","t","i","o","n",".","c","s","v">>, <<ExecJohn>>),
       Blob(ACME, <<"2","0","2","4","5">>, <<"a","c","m","e","_","e","x","e","c","u","t","i","v","e","_","c","o","m","p","e","n","s","a","t","i","o","n",".","c","s","v">>, <<ExecJohn>>),
       Blob(ACME, <<"2","o","2","4">>, <<"a","c","m","e","_","m","a","n","i","f","e","s","t",".","c","s","v">>, <<ManifestFull>>) >>

\* a company whose only objects are under a folder that is not a year
BigcoStray ==
    << Blob(BIGCO, <<"d","o","c","s">>, <<"b","i","g","c","o","_","e","x","e","c","u","t","i","v","e","_","c","o","m","p","e","n","s","a","t","i","o","n",".","c","s","v">>, <<ExecJohn>>) >>

Stores ==
    { Acme2023Full \o Acme2024Sparse \o Bigco2024Ok,
      Acme2023Full \o Acme2024Rich,
      Acme2023Full \o Acme2024Bare \o Bigco2024Short,
      Acme2024Bare \o Bigco2024Short,
      Acme2024Rich \o Bigco2024Ok,
      Acme2024Sparse \o AcmeStray \o BigcoStray }

(***************************************************************************)
(* fortune10_loader.py: the bundled sample dataset turned into a league.   *)
(* The league is the LeagueManager of models.py: companies and people by   *)
(* integer id, and the list of all roles.                                  *)
(***************************************************************************)
NewLeague == [companies |-> EmptyMap, people |-> EmptyMap, all_roles |-> <<>>]

NoRole == [person_id |-> 0]

BOARD == <<"B","o","a","r","d">>

C_SUITE == <<"C","-","S","u","i","t","e">>

BOARD_CERTIFIED == <<"B","o","a","r","d"," ","C","e","r","t">>

\* _position_type_for_role
_position_type_for_role(source_role) ==
    LET title == Lower(source_role.title)
        source_type == Lower(source_role.position_type)
    IN  IF \E keyword \in {<<"c","h","a","i","r">>, <<"d","i","r","e","c","t","o","r">>, <<"b","o","a","r","d">>} : Contains(title, keyword)
        THEN BOARD
        ELSE IF source_type \in {<<"b","o","a","r","d">>, <<"d","i","r","e","c","t","o","r">>} THEN BOARD
        ELSE C_SUITE

\* _sanitize_status
_sanitize_status(status) ==
    IF ~Truthy(status) THEN <<"A","c","t","i","v","e">>
    ELSE IF Lower(Strip(status)) \in {<<"r","e","t","i","r","e","d">>, <<"i","n","a","c","t","i","v","e">>} THEN <<"R","e","t","i","r","e","d">>
    ELSE <<"A","c","t","i","v","e">>

\* Person.add_role
PersonWithRole(person, role) ==
    [person EXCEPT
        !.roles = Append(@, role),
        !.current_role = IF @ = NoRole \/ role.year >= @.year THEN role ELSE @]

\* Company.add_person
CompanyWithPerson(company, person_id, role) ==
    [company EXCEPT
        !.all_roles = Append(@, role),
        !.executives = IF role.position_type = C_SUITE /\ ~IsIn(@, person_id)
                       THEN Append(@, person_id) ELSE @,
        !.board_members = IF role.position_type = BOARD /\ ~IsIn(@, person_id)
                          THEN Append(@, person_id) ELSE @]

\* LeagueManager.add_role
add_role(league, role) ==
    LET l1 == [league EXCEPT !.all_roles = Append(@, role)]
    IN  IF role.person_id \in DOMAIN l1.people
        THEN LET l2 == [l1 EXCEPT !.people[role.person_id] = PersonWithRole(@, role)]
             IN  IF role.company_id \in DOMAIN l2.companies
                 THEN [l2 EXCEPT !.companies[role.company_id] =
                                      CompanyWithPerson(@, role.person_id, role)]
                 ELSE l2
        ELSE l1

\* the Person that _ensure_person of the sample loader builds
LeaguePersonOf(source_person, default_age) ==
    [person_id |-> source_person.person_id,
     name      |-> source_person.name,
     age       |-> IF source_person.age # 0 THEN source_person.age ELSE default_age,
     education |-> IF Truthy(source_person.education) THEN source_person.education ELSE <<"M","B","A">>,
     status    |-> _sanitize_status(source_person.status),
     roles     |-> <<>>,
     current_role |-> NoRole]

\* the Person that _add_board_members builds
BoardPerson(person_id, clean_name) ==
    [person_id |-> person_id, name |-> clean_name, age |-> 58,
     education |-> BOARD_CERTIFIED, status |-> <<"A","c","t","i","v","e">>,
     roles |-> <<>>, current_role |-> NoRole]

BoardRole(person_id, company_id, default_year) ==
    [person_id |-> person_id, company_id |-> company_id, title |-> <<"B","o","a","r","d"," ","D","i","r","e","c","t","o","r">>,
     position_type |-> BOARD, year |-> default_year, base_salary |-> 0]

LeagueRoleOf(person_id, company_id, source_role) ==
    [person_id |-> person_id, company_id |-> company_id, title |-> source_role.title,
     position_type |-> _position_type_for_role(source_role), year |-> source_role.year,
     base_salary |-> source_role.base_salary]

\* _add_roles_for_person
RECURSIVE _add_roles_for_person(_, _, _, _)
_add_roles_for_person(league, company_id, person_id, roles) ==
    IF roles = <<>> THEN league
    ELSE _add_roles_for_person(add_role(league, LeagueRoleOf(person_id, company_id, Head(roles))),
                               company_id, person_id, Tail(roles))

\* the executives of all source companies
SourceExecutives(source_companies) ==
    UNION { Range(source_companies[i].executives) : i \in 1..Len(source_companies) }

MaxOf(S) == CHOOSE m \in S : \A o \in S : o <= m

\* _extract_years
_extract_years(source_companies) ==
    LET years == UNION { { e.roles[j].year : j \in 1..Len(e.roles) } :
                            e \in SourceExecutives(source_companies) }
    IN  IF years = {} THEN {2024} ELSE years

\* variant: the first board id is one more than the number of executives
FirstBoardId_Counted(source_companies) ==
    Cardinality({ e.person_id : e \in SourceExecutives(source_companies) }) + 1

\* next_person_id at the start: max_existing_id + 1 or 1
FirstBoardId(source_companies) ==
    LET max_existing_id == MaxOf({0} \cup { e.person_id : e \in SourceExecutives(source_companies) })
    IN  IF max_existing_id + 1 # 0 THEN max_existing_id + 1 ELSE 1

LeagueCompanyOf(source_company) ==
    [company_id |-> source_company.company_id,
     name       |-> source_company.name,
     ticker     |-> IF Truthy(source_company.ticker) THEN source_company.ticker ELSE UNK,
     executives |-> <<>>, board_members |-> <<>>, all_roles |-> <<>>]

\* the sample data: executives shared between companies, ids with gaps, board
\* lists that repeat a name, pad it with blanks or name an executive
SourceRoleOf(title, year) ==
    [title |-> title, position_type |-> <<"e","x","e","c","u","t","i","v","e">>, year |-> year, base_salary |-> 100]

SourcePersonOf(person_id, name, status, roles) ==
    [person_id |-> person_id, name |-> name, age |-> 0, education |-> NoneV,
     status |-> status, roles |-> roles]

ANN == SourcePersonOf(1, <<"A","n","n">>, NoneV, <<SourceRoleOf(<<"C","E","O">>, 2023), SourceRoleOf(<<"C","h","a","i","r">>, 2024)>>)

BOB == SourcePersonOf(7, <<"B","o","b">>, <<" ","r","e","t","i","r","e","d"," ">>, <<SourceRoleOf(<<"C","F","O">>, 2024)>>)

EVE == SourcePersonOf(3, <<"E","v","e">>, <<"A","c","t","i","v","e">>, <<>>)

SourceA ==
    [company_id |-> 1, name |-> <<"A"," ","I","n","c">>, ticker |-> <<"A">>,
     executives |-> <<ANN, BOB>>, board_members |-> <<<<" ","C","y"," ">>, <<"A","n","n">>, <<"C","y">>, <<"D","e","e">>>>]

SourceB ==
    [company_id |-> 2, name |-> <<"B"," ","I","n","c">>, ticker |-> NoneV,
     executives |-> <<[BOB EXCEPT !.roles = <<SourceRoleOf(<<"C","O","O">>, 2022)>>], EVE>>,
     board_members |-> <<<<"D","e","e">>, <<"F","a","y">>>>]

SourceC ==
    [company_id |-> 3, name |-> <<"C"," ","I","n","c">>, ticker |-> <<>>,
     executives |-> <<>>, board_members |-> <<<<"G","u","s">>, <<"E","v","e">>>>]

SourceCompanyPool == {SourceA, SourceB, SourceC}

\* what build_data may return: the companies of the pool in any order, each
\* at most once
SourceDatasets ==
    { s \in UNION { [1..n -> SourceCompanyPool] : n \in 0..3 } :
         \A i, j \in 1..Len(s) : s[i] = s[j] => i = j }

FortuneIdle ==
    [pc               |-> "idle",
     source_companies |-> <<>>,
     league           |-> NewLeague,
     available_years  |-> {},
     next_person_id   |-> 0,
     ci               |-> 0,
     ei               |-> 0,
     bi               |-> 0,
     existing_company_names |-> {},
     existing_league_names  |-> {}]

(***************************************************************************)
(* State.                                                                  *)
(***************************************************************************)
VARIABLES
    bucket,          \* the object store: a list of blobs in listing order
    allow_fallback,  \* app.ALLOW_SAMPLE_FALLBACK
    heap,            \* the LeagueManager instances created so far; an instance is its index
    loader_lm,       \* folder_loader.league_manager
    load_warnings,   \* folder_loader.load_warnings
    app_lm,          \* app.league_manager, 0 while the module is still being imported
    th,              \* the locals of each request thread
    failures,        \* object-store calls that have raised so far
    loads,           \* invocations of load_all_company_data so far
    born,            \* history: for each instance, the invocation that created it
    submitted,       \* history: per instance, the last record submitted for each key
    last_person,     \* history: the latest _ensure_person call
    last_company,    \* history: the latest _ensure_company call
    served,          \* history: what the latest query read
    imports,         \* history: the direct load_company_year calls and the counts after each
    fortune          \* the locals of load_fortune10_league and the league it builds

vars == <<bucket, allow_fallback, heap, loader_lm, load_warnings, app_lm, th, failures,
          loads, born, submitted, last_person, last_company, served, imports, fortune>>

MaxLoads == 2

MaxFailures == 1

MaxImports == 2

Threads == {1, 2}

DEFAULT_YEAR == Y2024

Y2022 == <<"2","0","2","2">>

\* the values of the year parameter the requests carry
RequestYears == {Y2022, Y2023, Y2024}

NoResult == [status |-> "none"]

IdleLocals ==
    [pc               |-> "idle",
     caller           |-> "none",
     specific_year    |-> NoneV,
     load_all_years   |-> FALSE,
     company_slugs    |-> <<>>,
     ci               |-> 0,
     years            |-> <<>>,
     target_years     |-> <<>>,
     yi               |-> 0,
     blobs            |-> <<>>,
     manifest_row     |-> EmptyMap,
     fi               |-> 0,
     kind             |-> "none",
     rows             |-> <<>>,
     ri               |-> 0,
     recognized_files |-> 0,
     company_lm       |-> 0,   \* the instance that holds the Company object of the local `company`
     result           |-> NoResult,
     \* history
     created          |-> 0,
     app_before       |-> 0,
     app_before_lm    |-> NewLeagueManager,
     manifest_raw     |-> EmptyMap,
     raised_in        |-> "none",
     visited          |-> {}]

LoadingPcs == {"discover", "years", "partition", "manifest", "ensure", "files", "rows"}

NoCall == [id |-> 0]

\* the fallback dataset of load_fortune10_sample_dataset, as one company entry
SampleLeague ==
    add_company(NewLeagueManager,
        [company_id |-> <<"s","a","m","p","l","e">>, company_name |-> <<"S","a","m","p","l","e">>, ticker |-> UNK,
         fiscal_year_end |-> YearEnd(Y2024), source_url |-> <<>>, notes |-> NoneV,
         market_cap_usd |-> 0, revenue_usd |-> 0, cap_budget_usd |-> 0,
         sector |-> NoneV, founded_year |-> 0])

\* CompanyFolderLoader.__init__ has run; the module-level load has not
InitCommon ==
    /\ bucket \in Stores
    /\ heap = <<NewLeagueManager>>
    /\ loader_lm = 1
    /\ load_warnings = <<>>
    /\ app_lm = 0
    /\ th = [p \in Threads |-> IdleLocals]
    /\ loads = 0
    /\ born = <<0>>
    /\ submitted = <<EmptyMap>>
    /\ last_person = NoCall
    /\ last_company = NoCall
    /\ served = NoCall
    /\ imports = <<>>
    /\ fortune = FortuneIdle

Init ==
    /\ InitCommon
    /\ allow_fallback \in BOOLEAN
    /\ failures = 0

(***************************************************************************)
(* load_all_company_data, step by step.                                    *)
(***************************************************************************)
\* variant: the loader empties the instance it already holds
LoadEntry_InPlace(h, cur) == [heap |-> [h EXCEPT ![cur] = NewLeagueManager], lm |-> cur]

\* self.league_manager = LeagueManager(): a new instance, bound to the loader
LoadEntry(h, cur) == [heap |-> Append(h, NewLeagueManager), lm |-> Len(h) + 1]

\* the step of a request thread; the sample loader is not touched by it
SetLocals(p, locals) ==
    /\ th' = [th EXCEPT ![p] = locals]
    /\ UNCHANGED fortune

\* the pc after the loop over years of company ci has ended
AfterCompany(l) ==
    IF l.caller = "api" THEN [l EXCEPT !.pc = "idle"]
    ELSE IF l.ci + 1 > Len(l.company_slugs) THEN [l EXCEPT !.pc = "aggregate", !.ci = l.ci + 1]
    ELSE [l EXCEPT !.pc = "years", !.ci = l.ci + 1]

\* variant: load_company_year is called again for the year it has just loaded
AfterPartition_SameYear(l) ==
    LET done == [l EXCEPT !.visited = @ \cup {<<l.company_slugs[l.ci], l.target_years[l.yi]>>}]
    IN  IF l.caller # "api" /\ l.yi + 1 <= Len(l.target_years)
        THEN [done EXCEPT !.pc = "partition"]
        ELSE AfterCompany(done)

\* the pc after load_company_year has returned
AfterPartition(l) ==
    LET done == [l EXCEPT !.visited = @ \cup {<<l.company_slugs[l.ci], l.target_years[l.yi]>>}]
    IN  IF l.caller # "api" /\ l.yi + 1 <= Len(l.target_years)
        THEN [done EXCEPT !.pc = "partition", !.yi = l.yi + 1]
        ELSE AfterCompany(done)

\* variant: the exception leaves load_all_company_data
Raise_Propagating(l, where) == [l EXCEPT !.pc = "idle", !.raised_in = where]

Raise(l, where) == [l EXCEPT !.pc = "failed", !.raised_in = where]

CanFail == failures < MaxFailures

\* variant: the application is bound to the new instance as soon as the load starts
EnterLoad_PublishingAtOnce(p, specific_year, load_all_years, caller) ==
    LET e == LoadEntry(heap, loader_lm)
    IN  /\ heap' = e.heap
        /\ loader_lm' = e.lm
        /\ load_warnings' = <<>>
        /\ loads' = loads + 1
        /\ born' = [i \in 1..Len(e.heap) |-> IF i <= Len(born) THEN born[i] ELSE loads + 1]
        /\ submitted' = [i \in 1..Len(e.heap) |->
                            IF i <= Len(submitted) /\ i # e.lm THEN submitted[i] ELSE EmptyMap]
        /\ SetLocals(p, [IdleLocals EXCEPT
                            !.pc = "discover", !.caller = caller,
                            !.specific_year = specific_year, !.load_all_years = load_all_years,
                            !.created = e.lm, !.app_before = app_lm,
                            !.app_before_lm = IF app_lm = 0 THEN NewLeagueManager ELSE heap[app_lm]])
        /\ app_lm' = IF caller = "refresh" THEN e.lm ELSE app_lm
        /\ UNCHANGED <<bucket, allow_fallback, failures, last_person, last_company,
                       served, imports>>

EnterLoad(p, specific_year, load_all_years, caller) ==
    LET e == LoadEntry(heap, loader_lm)
    IN  /\ heap' = e.heap
        /\ loader_lm' = e.lm
        /\ load_warnings' = <<>>
        /\ loads' = loads + 1
        /\ born' = [i \in 1..Len(e.heap) |-> IF i <= Len(born) THEN born[i] ELSE loads + 1]
        /\ submitted' = [i \in 1..Len(e.heap) |->
                            IF i <= Len(submitted) /\ i # e.lm THEN submitted[i] ELSE EmptyMap]
        /\ SetLocals(p, [IdleLocals EXCEPT
                            !.pc = "discover", !.caller = caller,
                            !.specific_year = specific_year, !.load_all_years = load_all_years,
                            !.created = e.lm, !.app_before = app_lm,
                            !.app_before_lm = IF app_lm = 0 THEN NewLeagueManager ELSE heap[app_lm]])
        /\ UNCHANGED <<bucket, allow_fallback, app_lm, failures, last_person, last_company,
                       served, imports>>

\* the module-level initial load of app.py
StartupLoad(p) ==
    /\ th[p].pc = "idle"
    /\ app_lm = 0
    /\ loads = 0
    /\ EnterLoad(p, DEFAULT_YEAR, FALSE, "startup")

\* refresh_data up to its call of load_all_company_data
RefreshData(p, year, load_all) ==
    /\ th[p].pc = "idle"
    /\ app_lm # 0
    /\ loads < MaxLoads
    /\ IF load_all THEN EnterLoad(p, NoneV, TRUE, "refresh")
                   ELSE EnterLoad(p, year, FALSE, "refresh")

Unchanged_Repo == UNCHANGED <<heap, loader_lm, submitted, last_person, last_company>>

Unchanged_Env == UNCHANGED <<bucket, allow_fallback, app_lm, loads, born, served>>

ListCompanyFolders(p) ==
    LET l == th[p]
        slugs == list_company_folders(bucket)
    IN  /\ l.pc = "discover"
        /\ \/ /\ CanFail
              /\ failures' = failures + 1
              /\ SetLocals(p, Raise(l, "discovery"))
           \/ /\ UNCHANGED failures
              /\ SetLocals(p, [l EXCEPT !.company_slugs = slugs, !.ci = 1,
                                        !.pc = IF slugs = <<>> THEN "aggregate" ELSE "years"])
        /\ UNCHANGED <<load_warnings, imports>>
        /\ Unchanged_Repo /\ Unchanged_Env

ListYears(p) ==
    LET l == th[p]
        years == list_years_for_company(bucket, l.company_slugs[l.ci])
        target == TargetYears(years, l.specific_year, l.load_all_years)
    IN  /\ l.pc = "years"
        /\ \/ /\ CanFail
              /\ failures' = failures + 1
              /\ SetLocals(p, Raise(l, "discovery"))
           \/ /\ UNCHANGED failures
              /\ SetLocals(p, IF target = <<>> THEN AfterCompany([l EXCEPT !.years = years])
                              ELSE [l EXCEPT !.years = years, !.target_years = target,
                                             !.yi = 1, !.pc = "partition"])
        /\ UNCHANGED <<load_warnings, imports>>
        /\ Unchanged_Repo /\ Unchanged_Env

\* load_company_year up to the listing of the partition
ListPartition(p) ==
    LET l == th[p]
        slug == l.company_slugs[l.ci]
        year == l.target_years[l.yi]
        blobs == ListBlobs(bucket, <<COMPANIES, slug, year>>)
    IN  /\ l.pc = "partition"
        /\ \/ /\ CanFail
              /\ failures' = failures + 1
              /\ SetLocals(p, Raise(l, "partition"))
              /\ UNCHANGED <<load_warnings, imports>>
           \/ /\ UNCHANGED failures
              /\ IF blobs = <<>>
                 THEN /\ load_warnings' = Append(load_warnings, <<"no files", slug, year>>)
                      /\ SetLocals(p, AfterPartition(l))
                      /\ imports' = IF l.caller = "api"
                                    THEN Append(imports, [slug |-> slug, year |-> year,
                                                          raised |-> FALSE,
                                                          counts |-> Counts(heap[loader_lm])])
                                    ELSE imports
                 ELSE /\ UNCHANGED <<load_warnings, imports>>
                      /\ SetLocals(p, [l EXCEPT !.blobs = blobs, !.pc = "manifest"])
        /\ Unchanged_Repo /\ Unchanged_Env

\* variant: a failed download yields no rows and no warning
_read_csv_blob_Silent(blob, downloads) ==
    IF ~downloads THEN [rows |-> <<>>, warnings |-> <<>>]
    ELSE LET rows == StripRows(blob.rows)
         IN  [rows |-> rows,
              warnings |-> IF rows = <<>> THEN << <<"no rows", blob.name>> >> ELSE <<>>]

\* _read_csv_blob: the rows it returns and the warnings it appends
_read_csv_blob(blob, downloads) ==
    IF ~downloads THEN [rows |-> <<>>, warnings |-> << <<"download failed", blob.name>> >>]
    ELSE LET rows == StripRows(blob.rows)
         IN  [rows |-> rows,
              warnings |-> IF rows = <<>> THEN << <<"no rows", blob.name>> >> ELSE <<>>]

\* the loop of _import_manifest over the rows
RECURSIVE ImportManifestRows(_, _, _)
ImportManifestRows(lm, company_slug, rows) ==
    IF rows = <<>> THEN lm
    ELSE ImportManifestRows(ImportManifestRow(lm, company_slug, Head(rows)),
                            company_slug, Tail(rows))

\* variant: the manifest is taken only when the listing starts with it
ImportManifest_HeadOnly(p) ==
    LET l == th[p]
        slug == l.company_slugs[l.ci]
        year == l.target_years[l.yi]
        m == IF IsManifest(FileName(l.blobs[1])) THEN 1 ELSE 0
    IN  /\ l.pc = "manifest"
        /\ IF m = 0
           THEN /\ load_warnings' = Append(load_warnings, <<"manifest not found", slug, year>>)
                /\ SetLocals(p, [l EXCEPT !.manifest_row = EmptyMap, !.manifest_raw = EmptyMap,
                                          !.pc = "ensure"])
                /\ UNCHANGED <<heap, failures>>
           ELSE \E downloads \in BOOLEAN :
                LET r == _read_csv_blob(l.blobs[m], downloads)
                IN  /\ downloads \/ CanFail
                    /\ failures' = IF downloads THEN failures ELSE failures + 1
                    /\ load_warnings' = load_warnings \o r.warnings
                    /\ heap' = [heap EXCEPT ![loader_lm] = ImportManifestRows(@, slug, r.rows)]
                    /\ SetLocals(p, [l EXCEPT !.manifest_row = ManifestOf(r.rows),
                                              !.manifest_raw = IF r.rows = <<>> THEN EmptyMap
                                                               ELSE r.rows[1],
                                              !.pc = "ensure"])
        /\ UNCHANGED <<loader_lm, submitted, last_person, last_company, imports>>
        /\ Unchanged_Env

\* load_company_year: the first loop, which looks for the manifest and imports it
ImportManifest(p) ==
    LET l == th[p]
        slug == l.company_slugs[l.ci]
        year == l.target_years[l.yi]
        m == FirstManifest(l.blobs, 1)
    IN  /\ l.pc = "manifest"
        /\ IF m = 0
           THEN /\ load_warnings' = Append(load_warnings, <<"manifest not found", slug, year>>)
                /\ SetLocals(p, [l EXCEPT !.manifest_row = EmptyMap, !.manifest_raw = EmptyMap,
                                          !.pc = "ensure"])
                /\ UNCHANGED <<heap, failures>>
           ELSE \E downloads \in BOOLEAN :
                LET r == _read_csv_blob(l.blobs[m], downloads)
                IN  /\ downloads \/ CanFail
                    /\ failures' = IF downloads THEN failures ELSE failures + 1
                    /\ load_warnings' = load_warnings \o r.warnings
                    /\ heap' = [heap EXCEPT ![loader_lm] = ImportManifestRows(@, slug, r.rows)]
                    /\ SetLocals(p, [l EXCEPT !.manifest_row = ManifestOf(r.rows),
                                              !.manifest_raw = IF r.rows = <<>> THEN EmptyMap
                                                               ELSE r.rows[1],
                                              !.pc = "ensure"])
        /\ UNCHANGED <<loader_lm, submitted, last_person, last_company, imports>>
        /\ Unchanged_Env

\* load_company_year: company = self._ensure_company(company_slug, manifest_row, year)
EnsureCompany(p) ==
    LET l == th[p]
        slug == l.company_slugs[l.ci]
        year == l.target_years[l.yi]
        lm == heap[loader_lm]
    IN  /\ l.pc = "ensure"
        /\ IF EnsureCompanyRaises(year)
           THEN /\ SetLocals(p, Raise(l, "partition"))
                /\ UNCHANGED <<heap, last_company>>
           ELSE /\ heap' = [heap EXCEPT ![loader_lm] = _ensure_company(lm, slug, l.manifest_row, year)]
                /\ last_company' = [id |-> loader_lm, slug |-> slug, year |-> year,
                                    existed |-> HasCompany(lm, slug),
                                    before |-> IF HasCompany(lm, slug) THEN lm.companies[slug]
                                               ELSE NewCompany(slug, EmptyMap, year),
                                    manifest_row |-> l.manifest_row,
                                    has_manifest |-> FirstManifest(l.blobs, 1) # 0]
                /\ SetLocals(p, [l EXCEPT !.fi = 1, !.recognized_files = 0, !.pc = "files",
                                          !.company_lm = loader_lm])
        /\ UNCHANGED <<loader_lm, load_warnings, failures, submitted, last_person, imports>>
        /\ Unchanged_Env

ImporterKinds == {"executive_compensation", "equity_grants", "beneficial_ownership",
                  "director_compensation", "director_policy", "director_profiles"}

\* variant: an unrecognized file is recorded as a warning of the load
NextFile_Warning(p) ==
    LET l == th[p]
        blob == l.blobs[l.fi]
        kind == Classify(FileName(blob))
    IN  /\ l.pc = "files"
        /\ l.fi <= Len(l.blobs)
        /\ IF kind \notin ImporterKinds
           THEN /\ SetLocals(p, [l EXCEPT !.fi = @ + 1])
                /\ load_warnings' = IF kind = "unrecognized"
                                    THEN Append(load_warnings, <<"unrecognized", blob.name>>)
                                    ELSE load_warnings
                /\ UNCHANGED failures
           ELSE \E downloads \in BOOLEAN :
                LET r == _read_csv_blob(blob, downloads)
                IN  /\ downloads \/ CanFail
                    /\ failures' = IF downloads THEN failures ELSE failures + 1
                    /\ load_warnings' = load_warnings \o r.warnings
                    /\ SetLocals(p, IF r.rows = <<>>
                                    THEN [l EXCEPT !.fi = @ + 1, !.recognized_files = @ + 1]
                                    ELSE [l EXCEPT !.kind = kind, !.rows = r.rows, !.ri = 1,
                                                   !.pc = "rows"])
        /\ UNCHANGED imports
        /\ Unchanged_Repo /\ Unchanged_Env

\* load_company_year: one iteration of the second loop, up to the importer's read
NextFile(p) ==
    LET l == th[p]
        blob == l.blobs[l.fi]
        kind == Classify(FileName(blob))
    IN  /\ l.pc = "files"
        /\ l.fi <= Len(l.blobs)
        /\ IF kind \notin ImporterKinds
           THEN /\ SetLocals(p, [l EXCEPT !.fi = @ + 1])
                /\ UNCHANGED <<load_warnings, failures>>
           ELSE \E downloads \in BOOLEAN :
                LET r == _read_csv_blob(blob, downloads)
                IN  /\ downloads \/ CanFail
                    /\ failures' = IF downloads THEN failures ELSE failures + 1
                    /\ load_warnings' = load_warnings \o r.warnings
                    /\ SetLocals(p, IF r.rows = <<>>
                                    THEN [l EXCEPT !.fi = @ + 1, !.recognized_files = @ + 1]
                                    ELSE [l EXCEPT !.kind = kind, !.rows = r.rows, !.ri = 1,
                                                   !.pc = "rows"])
        /\ UNCHANGED imports
        /\ Unchanged_Repo /\ Unchanged_Env

\* the locals after the importer has finished a row
AfterRow(l) ==
    IF l.ri + 1 > Len(l.rows)
    THEN [l EXCEPT !.pc = "files", !.fi = @ + 1, !.recognized_files = @ + 1,
                   !.kind = "none", !.rows = <<>>, !.ri = 0]
    ELSE [l EXCEPT !.ri = @ + 1]

\* history of an _ensure_person call made on repository lm
PersonCall(lm, person_id, full_name, args) ==
    LET slug == PersonSlug(person_id, full_name)
    IN  [id |-> loader_lm, slug |-> slug, existed |-> HasPerson(lm, slug),
         before |-> IF HasPerson(lm, slug) THEN lm.people[slug]
                    ELSE NewPerson(slug, full_name, Kw(args)),
         args |-> Kw(args)]

Submit(kind, rec) ==
    LET key == <<kind>> \o CompKey(rec)
        n == IF key \in DOMAIN submitted[loader_lm] THEN submitted[loader_lm][key].n ELSE 0
    IN  [submitted EXCEPT ![loader_lm] = Put(@, key, [rec |-> rec, n |-> n + 1])]

\* the repository an importer works on: self.league_manager, seen together
\* with the Company object that load_company_year holds in `company`
Borrowed(l) ==
    LET slug == l.company_slugs[l.ci]
    IN  IF l.company_lm = loader_lm THEN heap[loader_lm]
        ELSE [heap[loader_lm] EXCEPT
                 !.companies = Put(@, slug, heap[l.company_lm].companies[slug])]

\* the instances after an importer has turned Borrowed(l) into res: records
\* and people go to self.league_manager, changes of the Company object stay
\* with the instance that holds it
RowEffect(l, res) ==
    LET slug == l.company_slugs[l.ci]
    IN  IF l.company_lm = loader_lm THEN [heap EXCEPT ![loader_lm] = res]
        ELSE [heap EXCEPT
                 ![loader_lm] = [res EXCEPT !.companies = heap[loader_lm].companies],
                 ![l.company_lm] = [@ EXCEPT !.companies[slug] = res.companies[slug]]]

RowStep(p, kind) ==
    /\ th[p].pc = "rows"
    /\ th[p].kind = kind
    /\ UNCHANGED <<loader_lm, load_warnings, failures, last_company, imports>>
    /\ Unchanged_Env

ImportExecutiveCompensation(p) ==
    LET l == th[p]
        row == l.rows[l.ri]
        slug == l.company_slugs[l.ci]
        year == l.target_years[l.yi]
        lm == Borrowed(l)
    IN  /\ RowStep(p, "executive_compensation")
        /\ heap' = RowEffect(l, ImportExecutiveCompensationRow(lm, slug, year, row))
        /\ IF Truthy(ExecutiveFullName(row))
           THEN /\ last_person' = PersonCall(lm, Get(row, "person_id"), ExecutiveFullName(row),
                                             ExecutivePersonArgs(row))
                /\ submitted' = Submit("exec", ExecutiveCompensationRecord(slug, year, row))
           ELSE UNCHANGED <<last_person, submitted>>
        /\ SetLocals(p, AfterRow(l))

ImportEquityGrants(p) ==
    LET l == th[p]
        row == l.rows[l.ri]
        slug == l.company_slugs[l.ci]
        lm == Borrowed(l)
    IN  /\ RowStep(p, "equity_grants")
        /\ heap' = RowEffect(l, ImportEquityGrantRow(lm, slug, row))
        /\ IF Truthy(ExecutiveFullName(row))
           THEN last_person' = PersonCall(lm, Get(row, "person_id"), ExecutiveFullName(row),
                                          EquityPersonArgs(row))
           ELSE UNCHANGED last_person
        /\ UNCHANGED submitted
        /\ SetLocals(p, IF EquityRowRaises(row) THEN Raise(l, "partition") ELSE AfterRow(l))

ImportBeneficialOwnership(p) ==
    LET l == th[p]
        row == l.rows[l.ri]
        slug == l.company_slugs[l.ci]
        lm == Borrowed(l)
    IN  /\ RowStep(p, "beneficial_ownership")
        /\ heap' = RowEffect(l, ImportBeneficialOwnershipRow(lm, slug, row))
        /\ IF Truthy(OwnershipFullName(row))
           THEN last_person' = PersonCall(lm, Get(row, "person_id"), OwnershipFullName(row),
                                          OwnershipPersonArgs(row))
           ELSE UNCHANGED last_person
        /\ UNCHANGED submitted
        /\ SetLocals(p, AfterRow(l))

ImportDirectorCompensation(p) ==
    LET l == th[p]
        row == l.rows[l.ri]
        slug == l.company_slugs[l.ci]
        lm == Borrowed(l)
    IN  /\ RowStep(p, "director_compensation")
        /\ heap' = RowEffect(l, ImportDirectorCompensationRow(lm, slug, row))
        /\ IF Truthy(DirectorFullName(row))
           THEN /\ last_person' = PersonCall(lm, Get(row, "person_id"), DirectorFullName(row),
                                             DirectorPersonArgs(row))
                /\ submitted' = Submit("director",
                                       DirectorCompensationRecord(lm.companies[slug], row))
           ELSE UNCHANGED <<last_person, submitted>>
        /\ SetLocals(p, AfterRow(l))

ImportDirectorProfiles(p) ==
    LET l == th[p]
        row == l.rows[l.ri]
        slug == l.company_slugs[l.ci]
        lm == Borrowed(l)
    IN  /\ RowStep(p, "director_profiles")
        /\ heap' = RowEffect(l, ImportDirectorProfileRow(lm, slug, row))
        /\ IF Truthy(DirectorFullName(row))
           THEN last_person' = PersonCall(lm, Get(row, "person_id"), DirectorFullName(row),
                                          DirectorPersonArgs(row))
           ELSE UNCHANGED last_person
        /\ UNCHANGED submitted
        /\ SetLocals(p, AfterRow(l))

ImportDirectorPolicy(p) ==
    LET l == th[p]
        row == l.rows[l.ri]
        slug == l.company_slugs[l.ci]
    IN  /\ RowStep(p, "director_policy")
        /\ heap' = RowEffect(l, ImportDirectorPolicyRow(Borrowed(l), slug, row))
        /\ UNCHANGED <<last_person, submitted>>
        /\ SetLocals(p, AfterRow(l))

\* load_company_year: after the second loop
EndPartition(p) ==
    LET l == th[p]
        slug == l.company_slugs[l.ci]
        year == l.target_years[l.yi]
    IN  /\ l.pc = "files"
        /\ l.fi > Len(l.blobs)
        /\ load_warnings' = IF l.recognized_files = 0
                            THEN Append(load_warnings, <<"no recognized CSVs", slug, year>>)
                            ELSE load_warnings
        /\ SetLocals(p, AfterPartition(l))
        /\ imports' = IF l.caller = "api"
                      THEN Append(imports, [slug |-> slug, year |-> year, raised |-> FALSE,
                                            counts |-> Counts(heap[loader_lm])])
                      ELSE imports
        /\ UNCHANGED failures
        /\ Unchanged_Repo /\ Unchanged_Env

\* load_all_company_data: the success return
ReturnSuccess(p) ==
    LET l == th[p]
        lm == heap[loader_lm]
    IN  /\ l.pc = "aggregate"
        /\ SetLocals(p, [l EXCEPT !.pc = "returned",
                            !.result = [status               |-> "success",
                                        companies_loaded     |-> DOMAIN lm.companies,
                                        companies_count      |-> Cardinality(DOMAIN lm.companies),
                                        people_count         |-> Cardinality(DOMAIN lm.people),
                                        executive_comp_count |-> Len(lm.executive_comp),
                                        warnings             |-> load_warnings,
                                        league_manager       |-> loader_lm]])
        /\ UNCHANGED <<load_warnings, failures, imports>>
        /\ Unchanged_Repo /\ Unchanged_Env

\* variant: the error result starts from an empty warnings list
ReturnError_NoWarnings(p) ==
    LET l == th[p]
    IN  /\ l.pc = "failed"
        /\ l.caller # "api"
        /\ SetLocals(p, [l EXCEPT !.pc = "returned",
                            !.result = [status   |-> "error",
                                        message  |-> l.raised_in,
                                        warnings |-> <<>>]])
        /\ UNCHANGED <<load_warnings, failures, imports>>
        /\ Unchanged_Repo /\ Unchanged_Env

\* load_all_company_data: the except clause
ReturnError(p) ==
    LET l == th[p]
    IN  /\ l.pc = "failed"
        /\ l.caller # "api"
        /\ SetLocals(p, [l EXCEPT !.pc = "returned",
                            !.result = [status   |-> "error",
                                        message  |-> l.raised_in,
                                        warnings |-> load_warnings]])
        /\ UNCHANGED <<load_warnings, failures, imports>>
        /\ Unchanged_Repo /\ Unchanged_Env

(***************************************************************************)
(* app.py: what the callers do with the result, and the query handlers.    *)
(***************************************************************************)
\* variant: the application takes the loader's instance whatever the status
Publish_Always(status, caller, fallback, h, cur, loaded) == [heap |-> h, app |-> loaded]

\* what the application binds league_manager to, given the load result
Publish(status, caller, fallback, h, cur, loaded) ==
    IF status = "success" THEN [heap |-> h, app |-> loaded]
    ELSE IF fallback THEN [heap |-> Append(h, SampleLeague), app |-> Len(h) + 1]
    ELSE IF caller = "startup" THEN [heap |-> Append(h, NewLeagueManager), app |-> Len(h) + 1]
    ELSE [heap |-> h, app |-> cur]

Finish(p) ==
    LET l == th[p]
        pub == Publish(l.result.status, l.caller, allow_fallback, heap, app_lm, loader_lm)
    IN  /\ l.pc = "returned"
        /\ heap' = pub.heap
        /\ app_lm' = pub.app
        /\ born' = [i \in 1..Len(pub.heap) |-> IF i <= Len(born) THEN born[i] ELSE 0]
        /\ submitted' = [i \in 1..Len(pub.heap) |->
                            IF i <= Len(submitted) THEN submitted[i] ELSE EmptyMap]
        /\ SetLocals(p, [l EXCEPT !.pc = "idle"])
        /\ UNCHANGED <<bucket, allow_fallback, loader_lm, load_warnings, failures, loads,
                       last_person, last_company, served, imports>>

\* the module-level code after the initial load
FinishStartup(p) ==
    /\ th[p].caller = "startup"
    /\ Finish(p)

\* refresh_data after load_all_company_data has returned
FinishRefresh(p) ==
    /\ th[p].caller = "refresh"
    /\ Finish(p)

\* any query route: reads app.league_manager
Query ==
    /\ app_lm # 0
    /\ served' = [id |-> app_lm,
                  during_load |-> \E q \in Threads : th[q].pc \in LoadingPcs,
                  companies |-> DOMAIN heap[app_lm].companies]
    /\ UNCHANGED <<bucket, allow_fallback, heap, loader_lm, load_warnings, app_lm, th, failures,
                   loads, born, submitted, last_person, last_company, imports, fortune>>

(***************************************************************************)
(* load_company_year called directly (it is part of the public API).       *)
(***************************************************************************)
CallLoadCompanyYear(p, slug, year) ==
    /\ th[p].pc = "idle"
    /\ Len(imports) < MaxImports
    /\ SetLocals(p, [IdleLocals EXCEPT !.pc = "partition", !.caller = "api",
                                       !.company_slugs = <<slug>>, !.ci = 1,
                                       !.target_years = <<year>>, !.yi = 1,
                                       !.created = loader_lm])
    /\ UNCHANGED <<load_warnings, failures, imports>>
    /\ Unchanged_Repo /\ Unchanged_Env

\* an exception leaves load_company_year and reaches its caller
PropagateToCaller(p) ==
    LET l == th[p]
    IN  /\ l.pc = "failed"
        /\ l.caller = "api"
        /\ SetLocals(p, [l EXCEPT !.pc = "idle"])
        /\ imports' = Append(imports, [slug |-> l.company_slugs[l.ci],
                                       year |-> l.target_years[l.yi], raised |-> TRUE,
                                       counts |-> Counts(heap[loader_lm])])
        /\ UNCHANGED <<load_warnings, failures>>
        /\ Unchanged_Repo /\ Unchanged_Env

Step(p) ==
    \/ ListCompanyFolders(p)
    \/ ListYears(p)
    \/ ListPartition(p)
    \/ ImportManifest(p)
    \/ EnsureCompany(p)
    \/ NextFile(p)
    \/ ImportExecutiveCompensation(p)
    \/ ImportEquityGrants(p)
    \/ ImportBeneficialOwnership(p)
    \/ ImportDirectorCompensation(p)
    \/ ImportDirectorProfiles(p)
    \/ ImportDirectorPolicy(p)
    \/ EndPartition(p)
    \/ ReturnSuccess(p)
    \/ ReturnError(p)

\* one request thread: the reloads are serialised
Next ==
    \/ StartupLoad(1)
    \/ \E year \in RequestYears, load_all \in BOOLEAN : RefreshData(1, year, load_all)
    \/ Step(1)
    \/ FinishStartup(1)
    \/ FinishRefresh(1)
    \/ Query

Spec == Init /\ [][Next]_vars

PartitionStep(p) ==
    \/ ListPartition(p)
    \/ ImportManifest(p)
    \/ EnsureCompany(p)
    \/ NextFile(p)
    \/ ImportExecutiveCompensation(p)
    \/ ImportEquityGrants(p)
    \/ ImportBeneficialOwnership(p)
    \/ ImportDirectorCompensation(p)
    \/ ImportDirectorProfiles(p)
    \/ ImportDirectorPolicy(p)
    \/ EndPartition(p)

\* a fresh loader on a store whose reads all succeed
InitReimport ==
    /\ InitCommon
    /\ allow_fallback = FALSE
    /\ failures = MaxFailures

NextReimport ==
    \/ \E slug \in Range(list_company_folders(bucket)) :
       \E year \in Range(list_years_for_company(bucket, slug)) :
          CallLoadCompanyYear(1, slug, year)
    \/ PartitionStep(1)
    \/ PropagateToCaller(1)

SpecReimport == InitReimport /\ [][NextReimport]_vars

(***************************************************************************)
(* Properties.                                                             *)
(***************************************************************************)
Instances == 1..Len(heap)

KeyedOnce(list) ==
    \A i, j \in 1..Len(list) : CompKey(list[i]) = CompKey(list[j]) => i = j

\* the records of a list are exactly the last submissions of the given kind
HoldsLastSubmitted(list, kind, id) ==
    /\ \A i \in 1..Len(list) :
          /\ <<kind>> \o CompKey(list[i]) \in DOMAIN submitted[id]
          /\ submitted[id][<<kind>> \o CompKey(list[i])].rec = list[i]
    /\ \A key \in DOMAIN submitted[id] :
          key[1] = kind => \E i \in 1..Len(list) : <<kind>> \o CompKey(list[i]) = key

\* C1: in every repository, after any sequence of imports, each (company,
\* person, fiscal-year-end) triple has at most one ExecutiveCompensation
\* record and at most one DirectorCompensation record, and that record is
\* the one submitted last for the triple.
C1_UpsertLastWins ==
    \A id \in Instances :
        /\ KeyedOnce(heap[id].executive_comp)
        /\ KeyedOnce(heap[id].director_comp)
        /\ HoldsLastSubmitted(heap[id].executive_comp, "exec", id)
        /\ HoldsLastSubmitted(heap[id].director_comp, "director", id)

\* a triple was submitted more than once for both kinds of record
C1_Witness ==
    \E id \in Instances :
        /\ \E key \in DOMAIN submitted[id] : key[1] = "exec" /\ submitted[id][key].n >= 2
        /\ \E key \in DOMAIN submitted[id] : key[1] = "director" /\ submitted[id][key].n >= 2

SamePartition(a, b) == a.slug = b.slug /\ a.year = b.year

\* C2: importing the same partition twice in a row, from unchanged files,
\* leaves the ExecutiveCompensation and DirectorCompensation counts and
\* totals as they were after the first import; when the two imports are the
\* first two into the repository, the equity-grant, beneficial-ownership
\* and director-profile counts are twice those after the first import.
C2_ReimportCounts ==
    \A i \in 1..(Len(imports) - 1) :
        (SamePartition(imports[i], imports[i + 1]) /\ ~imports[i].raised /\ ~imports[i + 1].raised)
        => LET first == imports[i].counts
               second == imports[i + 1].counts
           IN  /\ second.executive_comp = first.executive_comp
               /\ second.director_comp = first.director_comp
               /\ second.executive_total = first.executive_total
               /\ second.director_total = first.director_total
               /\ i = 1 => /\ second.equity_grants = 2 * first.equity_grants
                           /\ second.beneficial_ownership = 2 * first.beneficial_ownership
                           /\ second.director_profiles = 2 * first.director_profiles

\* a partition with compensation and grant records has been imported twice
C2_Witness ==
    /\ Len(imports) = 2
    /\ SamePartition(imports[1], imports[2])
    /\ ~imports[2].raised
    /\ imports[1].counts.executive_comp > 0
    /\ imports[1].counts.director_comp > 0
    /\ imports[1].counts.equity_grants > 0
    /\ imports[2].counts.equity_grants = 2 * imports[1].counts.equity_grants

\* C3: in every repository, a person whose is_executive (is_director) flag
\* is true keeps it true over every step.
C3_FlagsNeverCleared ==
    [][\A id \in Instances : \A s \in DOMAIN heap[id].people :
          /\ s \in DOMAIN heap'[id].people
          /\ heap[id].people[s].is_executive => heap'[id].people[s].is_executive
          /\ heap[id].people[s].is_director => heap'[id].people[s].is_director]_vars

\* an executive was resolved again by a row that says is_executive is false
C3_Witness ==
    /\ last_person.id # 0
    /\ last_person.existed
    /\ last_person.before.is_executive
    /\ ~last_person.args.is_executive
    /\ heap[last_person.id].people[last_person.slug].is_executive

TextFields == {"current_title", "bio_short", "linkedin_url", "photo_url", "education", "status"}

\* C4: in every repository, a descriptive field of a person that holds a
\* non-empty value never becomes empty, None or zero.
C4_PopulatedFieldsKept ==
    [][\A id \in Instances : \A s \in DOMAIN heap[id].people :
          /\ s \in DOMAIN heap'[id].people
          /\ \A f \in TextFields :
                Truthy(heap[id].people[s][f]) => Truthy(heap'[id].people[s][f])
          /\ TruthyInt(heap[id].people[s].years_experience)
                => TruthyInt(heap'[id].people[s].years_experience)]_vars

\* a person with a title, a status and an education was resolved again by a
\* row that is empty on all three and says zero years of experience
C4_Witness ==
    /\ last_person.id # 0
    /\ last_person.existed
    /\ Truthy(last_person.before.current_title) /\ ~Truthy(last_person.args.current_title)
    /\ Truthy(last_person.before.status) /\ ~Truthy(last_person.args.status)
    /\ Truthy(last_person.before.education) /\ ~Truthy(last_person.args.education)
    /\ TruthyInt(last_person.before.years_experience) /\ last_person.args.years_experience = 0
    /\ heap[last_person.id].people[last_person.slug].current_title
          = last_person.before.current_title

\* the manifest columns that feed a descriptive field of the company
ManifestColumns(f) ==
    CASE f = "company_name"    -> {"company_name", "name"}
      [] f = "ticker"          -> {"ticker", "symbol"}
      [] f = "fiscal_year_end" -> {"fiscal_year_end", "year_end"}
      [] OTHER                 -> {f}

CompanyTextFields == {"company_name", "ticker", "fiscal_year_end", "source_url", "notes", "sector"}

\* the manifest row is absent, lacks the columns of f, or holds empty values there
ManifestSilent(raw, f) == \A col \in ManifestColumns(f) : ~HasValue(raw, col)

\* thread p takes the _ensure_company step for a company the repository holds
EnsuresExisting(p) ==
    /\ th[p].pc = "ensure"
    /\ th'[p].pc = "files"
    /\ HasCompany(heap[loader_lm], th[p].company_slugs[th[p].ci])

\* C5: when _ensure_company is called for a company that already exists,
\* every descriptive field on which the manifest is silent keeps its value.
C5_SilentManifestKeepsFields ==
    [][\A p \in Threads : EnsuresExisting(p) =>
          LET slug == th[p].company_slugs[th[p].ci]
          IN  \A f \in CompanyTextFields :
                 ManifestSilent(th[p].manifest_raw, f)
                 => heap'[loader_lm].companies[slug][f] = heap[loader_lm].companies[slug][f]]_vars

NumericFields == {"market_cap_usd", "revenue_usd", "cap_budget_usd", "founded_year"}

\* the manifest cell of a numeric field holds a number
NumericSupplied(raw, f) ==
    /\ HasValue(raw, f)
    /\ IsDigitStr(Without(Strip(raw[f]), IF f = "founded_year" THEN {","} ELSE {",", "$"}))

\* C6: a non-zero market capitalization, revenue, compensation budget or
\* founding year of a company changes only in an _ensure_company step whose
\* manifest holds a number in that column.
C6_NumericFieldsKept ==
    [][\A id \in Instances : \A c \in DOMAIN heap[id].companies : \A f \in NumericFields :
          (heap[id].companies[c][f] # 0 /\ c \in DOMAIN heap'[id].companies
             /\ heap'[id].companies[c][f] # heap[id].companies[c][f])
          => \E p \in Threads :
                /\ EnsuresExisting(p)
                /\ th[p].company_slugs[th[p].ci] = c
                /\ id = loader_lm
                /\ NumericSupplied(th[p].manifest_raw, f)]_vars

\* an existing company with a market capitalization, a budget and a founding
\* year met a manifest with n/a, an empty cell and letters in those columns
C6_Witness ==
    /\ last_company.id # 0
    /\ last_company.existed
    /\ last_company.before.market_cap_usd # 0
    /\ last_company.before.revenue_usd # 0
    /\ last_company.manifest_row = ManifestOf(<<ManifestSparse>>)
    /\ \A f \in NumericFields :
          heap[last_company.id].companies[last_company.slug][f] = last_company.before[f]

InLoad(l) == l.caller \in {"startup", "refresh"} /\ l.pc # "idle"

\* C7: every invocation of load_all_company_data starts on a new, empty
\* instance and builds its result there; no step changes an instance that an
\* earlier invocation, the loader's constructor or the application created.
C7_FreshRepositoryPerLoad ==
    [][/\ \A p \in Threads :
             (th[p].pc = "idle" /\ th'[p].pc = "discover")
             => /\ loader_lm' \notin Instances
                /\ heap'[loader_lm'] = NewLeagueManager
                /\ th'[p].created = loader_lm'
       /\ \A p \in Threads :
             InLoad(th'[p]) =>
                /\ loader_lm' = th'[p].created
                /\ th'[p].result.status = "success" => th'[p].result.league_manager = th'[p].created
       /\ \A id \in Instances : born[id] # loads' => heap'[id] = heap[id]]_vars

\* a second load has succeeded while the instance of the first still holds
\* what it held when it was published
C7_Witness ==
    /\ loads = 2
    /\ th[1].pc = "returned"
    /\ th[1].result.status = "success"
    /\ th[1].result.companies_count > 0
    /\ th[1].app_before # loader_lm
    /\ heap[th[1].app_before] = th[1].app_before_lm
    /\ DOMAIN heap[th[1].app_before].companies # {}

\* C8: from the start of a reload until its handler has finished, the
\* application's league_manager is the previous instance, unchanged, and not
\* the instance being loaded; it becomes the loader's instance only in the
\* step that follows a success return.
C8_NoHalfPopulatedVisible ==
    [][/\ \A p \in Threads :
             (th'[p].caller = "refresh" /\ th'[p].pc # "idle")
             => /\ app_lm' = th'[p].app_before
                /\ heap'[app_lm'] = th'[p].app_before_lm
                /\ app_lm' # loader_lm'
       /\ (app_lm' # app_lm /\ app_lm' = loader_lm')
             => \E p \in Threads : /\ th[p].pc = "returned"
                                   /\ th[p].result.status = "success"
                                   /\ th[p].result.league_manager = app_lm']_vars

\* a query was served from the previous instance while a reload was filling
\* the next one
C8_Witness ==
    /\ served.id # 0
    /\ served.during_load
    /\ th[1].caller = "refresh"
    /\ th[1].pc = "rows"
    /\ served.id = app_lm
    /\ served.companies # {}
    /\ DOMAIN heap[loader_lm].people # {}

RefreshEndedInError(l) ==
    l.pc = "idle" /\ l.caller = "refresh" /\ l.result.status = "error"

Selected(l) ==
    UNION { { <<slug, year>> :
                year \in Range(TargetYears(list_years_for_company(bucket, slug),
                                           l.specific_year, l.load_all_years)) } :
            slug \in Range(list_company_folders(bucket)) }

\* C10 as stated: a load ends with status error only when the enumeration of
\* companies or years raised; when a partition raised, the load still ends
\* in success with every other selected partition imported.
C10_PartitionFailureIsolated ==
    \A p \in Threads : (th[p].pc = "returned" /\ th[p].caller \in {"startup", "refresh"})
        => /\ th[p].result.status = "error" <=> th[p].raised_in = "discovery"
           /\ th[p].raised_in = "partition"
                 => Cardinality(Selected(th[p]) \ th[p].visited) <= 1

IsPrefix(s, t) == Len(s) <= Len(t) /\ \A i \in 1..Len(s) : s[i] = t[i]

\* C11: a load that ends in Failed returns status error with a message and
\* with the warnings recorded during that load, in the order recorded: the
\* list is emptied when the load starts, only grows while the load runs, and
\* is what the error result carries.
C11_FailedKeepsWarnings ==
    [][\A p \in Threads :
          /\ (th[p].pc = "idle" /\ th'[p].pc = "discover") => load_warnings' = <<>>
          /\ (InLoad(th[p]) /\ InLoad(th'[p])) => IsPrefix(load_warnings, load_warnings')
          /\ (th[p].pc = "failed" /\ th'[p].pc = "returned")
                => /\ th'[p].result.status = "error"
                   /\ "message" \in DOMAIN th'[p].result
                   /\ th'[p].result.warnings = load_warnings]_vars

\* a second load failed after it had recorded a warning of its own
C11_Witness ==
    /\ loads = 2
    /\ th[1].pc = "returned"
    /\ th[1].result.status = "error"
    /\ th[1].result.warnings # <<>>
    /\ th[1].raised_in = "partition"

\* the loads alone, without the queries
NextLive ==
    \/ StartupLoad(1)
    \/ \E year \in RequestYears, load_all \in BOOLEAN : RefreshData(1, year, load_all)
    \/ Step(1)
    \/ FinishStartup(1)
    \/ FinishRefresh(1)

\* the load of thread p is between its entry and its return
Running(p) == th[p].pc \in LoadingPcs \cup {"aggregate", "failed"}

\* the thread that runs a load keeps running it: every object-store call
\* returns or raises, and nothing else in the load waits.  This is the
\* weak fairness of Step(1), that is WF_vars(Step(1)), with ENABLED <<Step(1)>>_vars
\* written as the state predicate it equals: a step of the load is possible
\* exactly while the load is running
FairStep == []<>(~Running(1)) \/ []<><<Step(1)>>_vars

SpecLive == Init /\ [][NextLive]_vars /\ FairStep

Terminal(l) == l.pc = "returned" /\ l.result.status \in {"success", "error"}

\* C12: every invocation of load_all_company_data eventually returns a
\* result whose status is success or error; a raised exception ends in the
\* error result and never leaves the invocation.
C12_LoadTerminates ==
    \A p \in Threads : InLoad(th[p]) ~> Terminal(th[p])

\* a load has returned the error result after a raise during discovery
C12_Witness ==
    /\ Terminal(th[1])
    /\ th[1].result.status = "error"
    /\ th[1].raised_in = "discovery"
    /\ th[1].company_slugs # <<>>

\* exactly four characters, each a decimal digit
FourDigits(text) ==
    Len(text) = 4 /\ \A i \in 1..4 : text[i] \in {"0", "1", "2", "3", "4", "5", "6", "7", "8", "9"}

\* the years of the partitions stored for a company
AvailableYears(slug) ==
    { b.name[3] : b \in { x \in Range(bucket) :
                            Len(x.name) >= 3 /\ x.name[2] = slug /\ FourDigits(x.name[3]) } }

\* the years the load mode asks for, given the years a company has
ExpectedYears(available, specific_year, load_all_years) ==
    IF specific_year # NoneV /\ specific_year \in available THEN {specific_year}
    ELSE IF load_all_years THEN available
    ELSE { y \in available : \A z \in available : DigitsToNat(z) <= DigitsToNat(y) }

\* C13: a load that succeeds has imported, for each discovered company, the
\* requested year when one is requested and the company has it, otherwise
\* every year of the company when load_all_years is set, otherwise the
\* company's most recent year; and nothing else.
C13_TargetYears ==
    \A p \in Threads :
        (th[p].pc = "returned" /\ th[p].result.status = "success")
        => th[p].visited =
              UNION { { <<slug, y>> : y \in ExpectedYears(AvailableYears(slug),
                                                          th[p].specific_year,
                                                          th[p].load_all_years) } :
                      slug \in { b.name[2] : b \in Range(bucket) } }

\* a load for 2023 took 2023 from the company that has it and the most
\* recent year from the company that does not
C13_Witness ==
    /\ th[1].pc = "returned"
    /\ th[1].result.status = "success"
    /\ th[1].specific_year = Y2023
    /\ th[1].visited = {<<ACME, Y2023>>, <<BIGCO, Y2024>>}

RecordLists == {"executive_comp", "equity_grants", "beneficial_ownership",
                "director_comp", "director_profiles", "director_policies"}

HasManifestFile(blobs) == \E i \in 1..Len(blobs) : IsManifest(FileName(blobs[i]))

\* C14: whenever the loop over the data files of a partition is running,
\* the manifest of the partition, if the listing holds one at any position,
\* has been imported and _ensure_company has run for the partition, so the
\* company is in the repository; and every record of every repository
\* belongs to a company of that repository.
C14_ManifestAndCompanyFirst ==
    /\ \A p \in Threads :
          th[p].pc \in {"files", "rows"} =>
             LET l == th[p]
                 slug == l.company_slugs[l.ci]
             IN  /\ HasManifestFile(l.blobs) => l.manifest_row # EmptyMap
                 /\ HasCompany(heap[loader_lm], slug)
                 /\ last_company.id = loader_lm
                 /\ last_company.slug = slug
                 /\ last_company.year = l.target_years[l.yi]
    /\ \A id \in Instances : \A list \in RecordLists :
          \A i \in 1..Len(heap[id][list]) :
             heap[id][list][i].company_id \in DOMAIN heap[id].companies

\* an importer is at its first row in a partition whose listing has the
\* manifest after the data files, and the manifest has already been imported
C14_Witness ==
    /\ th[1].pc = "rows"
    /\ th[1].fi = 1
    /\ ~IsManifest(FileName(th[1].blobs[1]))
    /\ HasManifestFile(th[1].blobs)
    /\ th[1].manifest_row # EmptyMap
    /\ heap[loader_lm].source_manifest # <<>>
    /\ heap[loader_lm].director_comp = <<>>

IsPolicyName(filename) ==
    \/ Contains(filename, <<"d","i","r","e","c","t","o","r","_","c","o","m","p","_","p","o","l","i","c","y">>)
    \/ Contains(filename, <<"d","i","r","e","c","t","o","r","_","c","o","m","p","e","n","s","a","t","i","o","n","_","p","o","l","i","c","y">>)

\* C15: a data file whose name contains director_comp_policy or
\* director_compensation_policy is read by the director-policy importer and
\* by no other importer.
C15_PolicyFilesGoToPolicyImporter ==
    \A p \in Threads :
        (th[p].pc = "rows" /\ IsPolicyName(FileName(th[p].blobs[th[p].fi])))
        => th[p].kind = "director_policy"

CategoryKeywords ==
    { <<"e","x","e","c","u","t","i","v","e","_","c","o","m","p","e","n","s","a","t","i","o","n">>, <<"e","x","e","c","u","t","i","v","e","_","e","q","u","i","t","y","_","g","r","a","n","t","s">>, <<"b","e","n","e","f","i","c","i","a","l","_","o","w","n","e","r","s","h","i","p">>,
      <<"d","i","r","e","c","t","o","r","_","c","o","m","p","e","n","s","a","t","i","o","n">>, <<"d","i","r","e","c","t","o","r","_","c","o","m","p","_","p","o","l","i","c","y">>, <<"d","i","r","e","c","t","o","r","s","_","p","r","o","f","i","l","e","s">>,
      <<"d","i","r","e","c","t","o","r","_","p","r","o","f","i","l","e","s">> }

\* a .csv file that is not a manifest and matches no category keyword
UnrecognizedCsv(blob) ==
    /\ EndsWith(FileName(blob), <<".","c","s","v">>)
    /\ ~EndsWith(FileName(blob), <<"_","m","a","n","i","f","e","s","t",".","c","s","v">>)
    /\ \A kw \in CategoryKeywords : ~Contains(FileName(blob), kw)

\* some warning of the list is about the file
Names(warnings, blob) ==
    \E i \in 1..Len(warnings) :
        /\ warnings[i][1] \notin {"no files", "manifest not found", "no recognized CSVs"}
        /\ warnings[i][2] = blob.name

\* C16 as stated: a load that has returned success carries, for every
\* unrecognized .csv file of every partition it loaded, a warning that names
\* the file.
C16_UnrecognizedFileWarned ==
    \A p \in Threads :
        (th[p].pc = "returned" /\ th[p].result.status = "success")
        => \A blob \in Range(bucket) :
              (UnrecognizedCsv(blob) /\ <<blob.name[2], blob.name[3]>> \in th[p].visited)
              => Names(th[p].result.warnings, blob)

\* C16 amended: the step with which the file loop meets an unrecognized .csv
\* file moves to the next file and changes nothing else: no warning is
\* recorded, no record is added and the load does not fail.
C16_UnrecognizedFileSkipped ==
    [][\A p \in Threads :
          (th[p].pc = "files" /\ th[p].fi <= Len(th[p].blobs)
             /\ UnrecognizedCsv(th[p].blobs[th[p].fi]) /\ th'[p] # th[p])
          => /\ th'[p] = [th[p] EXCEPT !.fi = @ + 1]
             /\ load_warnings' = load_warnings
             /\ heap' = heap]_vars

\* the file loop has passed an unrecognized .csv file in a partition that
\* also has recognized files, and no warning names it
C16_Witness ==
    /\ th[1].pc = "files"
    /\ th[1].fi > 1
    /\ UnrecognizedCsv(th[1].blobs[th[1].fi - 1])
    /\ th[1].recognized_files > 0
    /\ ~Names(load_warnings, th[1].blobs[th[1].fi - 1])

\* thread p is about to read the contents of a file: the manifest, or the
\* data file the loop has reached
ReadTarget(l) ==
    IF l.pc = "manifest" THEN l.blobs[FirstManifest(l.blobs, 1)] ELSE l.blobs[l.fi]

\* the step of thread p is a read of a file's contents that fails
ReadFails(p) ==
    /\ th[p].pc \in {"manifest", "files"}
    /\ failures' = failures + 1

DisplayNameOf(slug) == IF slug = ACME THEN <<"A","c","m","e">> ELSE <<"B","i","g"," ","C","o">>

\* C18: in a partition without a manifest file the manifest-missing warning
\* has been recorded when _ensure_company runs, and a company that is not
\* yet in the repository is created there with the display name derived
\* from its slug and the ticker UNK, after which the loop over the data
\* files of the partition starts.
C18_MissingManifestDefaults ==
    [][\A p \in Threads :
          (th[p].pc = "ensure" /\ th'[p].pc # "ensure" /\ ~HasManifestFile(th[p].blobs)) =>
             LET slug == th[p].company_slugs[th[p].ci]
                 year == th[p].target_years[th[p].yi]
             IN  /\ load_warnings # <<>>
                 /\ load_warnings[Len(load_warnings)] = <<"manifest not found", slug, year>>
                 /\ load_warnings' = load_warnings
                 /\ th'[p].pc = "files"
                 /\ th'[p].fi = 1
                 /\ HasCompany(heap'[loader_lm], slug)
                 /\ ~HasCompany(heap[loader_lm], slug)
                       => /\ heap'[loader_lm].companies[slug].company_name = DisplayNameOf(slug)
                          /\ heap'[loader_lm].companies[slug].ticker = <<"U","N","K">>
                          /\ heap'[loader_lm].companies[slug].company_id = slug]_vars

\* a partition without manifest has been loaded for a company first seen
\* there: the company has the default name and ticker, and records
C18_Witness ==
    /\ th[1].pc = "returned"
    /\ th[1].result.status = "success"
    /\ BIGCO \in DOMAIN heap[loader_lm].companies
    /\ heap[loader_lm].companies[BIGCO].company_name = <<"B","i","g"," ","C","o">>
    /\ heap[loader_lm].companies[BIGCO].ticker = <<"U","N","K">>
    /\ \E i \in 1..Len(heap[loader_lm].executive_comp) :
          heap[loader_lm].executive_comp[i].company_id = BIGCO
    /\ \E i \in 1..Len(load_warnings) :
          load_warnings[i] = <<"manifest not found", BIGCO, Y2024>>

\* C19: no row of a recognized data file makes its importer raise: the step
\* that handles a row goes on to the next row or to the next file.
C19_RowsNeverRaise ==
    [][\A p \in Threads :
          (th[p].pc = "rows" /\ th'[p] # th[p]) => th'[p].pc \in {"rows", "files"}]_vars

\* the third path segments of the objects under companies/<slug>/
ThirdSegments(slug) ==
    { b.name[3] : b \in { x \in Range(bucket) :
                            Len(x.name) >= 3 /\ x.name[1] = COMPANIES /\ x.name[2] = slug } }

\* C20: the list of years load_all_company_data gets from
\* list_years_for_company is in ascending order without duplicates and holds
\* exactly the third path segments under companies/<slug>/ that are four
\* digits.
C20_ListYears ==
    \A p \in Threads :
        (th[p].pc \in {"partition", "manifest", "ensure", "files", "rows"}
           /\ th[p].caller # "api") =>
           LET years == th[p].years
               slug == th[p].company_slugs[th[p].ci]
           IN  /\ Range(years) = { seg \in ThirdSegments(slug) : FourDigits(seg) }
               /\ \A i, j \in 1..Len(years) :
                     i < j => DigitsToNat(years[i]) < DigitsToNat(years[j])

\* the years of a company were listed from a store that also has folders
\* named notayear, 24, 20245 and 2o24 for it
C20_Witness ==
    /\ th[1].pc = "partition"
    /\ th[1].company_slugs[th[1].ci] = ACME
    /\ {<<"n","o","t","a","y","e","a","r">>, <<"2","4">>, <<"2","0","2","4","5">>, <<"2","o","2","4">>} \subseteq ThirdSegments(ACME)
    /\ th[1].years = <<Y2024>>

TotalColumns == <<"total_comp_usd", "total_compensation_usd", "total_compensation">>

SuppliesTotal(row) == \E i \in 1..Len(TotalColumns) : HasValue(row, TotalColumns[i])

\* the value of the first present, non-empty total column
SuppliedTotal(row) == _to_float(_get_first(row, TotalColumns, NoneV))

\* the sum of the seven components of an executive-compensation row
ComponentSum(row) ==
    _get_float(row, <<"salary_usd", "base_salary_usd", "base_salary", "salary">>, 0)
    + _get_float(row, <<"bonus_usd", "cash_bonus_usd", "bonus", "cash_bonus">>, 0)
    + _get_float(row, <<"stock_awards_usd", "stock_awards_fair_value_usd", "stock_awards",
                        "stock_awards_value">>, 0)
    + _get_float(row, <<"option_awards_usd", "options_awards_usd", "option_awards",
                        "options_awards">>, 0)
    + _get_float(row, <<"non_equity_incentive_usd", "non_equity_incentive_plan_usd",
                        "non_equity_incentive">>, 0)
    + _get_float(row, <<"pension_change_usd", "change_in_pension_and_defcomp_earnings_usd",
                        "pension_change">>, 0)
    + _get_float(row, <<"all_other_comp_usd", "all_other_compensation_usd",
                        "other_compensation_usd", "all_other_comp">>, 0)

\* the executive-compensation records a step puts into the loader's repository
NewExecutiveRecords ==
    { heap'[loader_lm].executive_comp[i] : i \in 1..Len(heap'[loader_lm].executive_comp) }
    \ { heap[loader_lm].executive_comp[i] : i \in 1..Len(heap[loader_lm].executive_comp) }

ExecutiveRowStep(p) ==
    /\ th[p].pc = "rows"
    /\ th[p].kind = "executive_compensation"
    /\ th'[p] # th[p]

\* C21 as stated: the total of a record imported from a row is the value of
\* the first non-empty total column when the row has one, and the sum of the
\* seven components only when it has none.
C21_TotalSuppliedOrSummed ==
    [][\A p \in Threads : ExecutiveRowStep(p) =>
          LET row == th[p].rows[th[p].ri]
          IN  \A rec \in NewExecutiveRecords :
                 rec.total_comp_usd = IF SuppliesTotal(row) THEN SuppliedTotal(row)
                                      ELSE ComponentSum(row)]_vars

\* C21 amended: the total is the value of the first non-empty total column
\* when that value is a number other than zero, and the sum of the seven
\* components otherwise, that is when the row has no total or its total is
\* zero or not a number.
C21_TotalNonZeroOrSummed ==
    [][\A p \in Threads : ExecutiveRowStep(p) =>
          LET row == th[p].rows[th[p].ri]
          IN  \A rec \in NewExecutiveRecords :
                 rec.total_comp_usd = IF SuppliesTotal(row) /\ SuppliedTotal(row) # 0
                                      THEN SuppliedTotal(row)
                                      ELSE ComponentSum(row)]_vars

\* one repository holds a record whose total is the supplied 1000 next to a
\* salary of 700, and a record whose total is the salary of 100 although the
\* row supplied a total of 0
C21_Witness ==
    /\ \E i \in 1..Len(heap[loader_lm].executive_comp) :
          /\ heap[loader_lm].executive_comp[i].total_comp_usd = 1000
          /\ heap[loader_lm].executive_comp[i].salary_usd = 700
    /\ \E i \in 1..Len(heap[loader_lm].executive_comp) :
          /\ heap[loader_lm].executive_comp[i].total_comp_usd = 100
          /\ heap[loader_lm].executive_comp[i].person_id = <<"p","1">>

PersonKinds ==
    {"executive_compensation", "equity_grants", "beneficial_ownership",
     "director_compensation", "director_profiles"}

\* the name an importer of the given kind reads from a row
RowFullName(kind, row) ==
    IF kind \in {"executive_compensation", "equity_grants"} THEN ExecutiveFullName(row)
    ELSE IF kind = "beneficial_ownership" THEN OwnershipFullName(row)
    ELSE DirectorFullName(row)

\* a name lower-cased, with every run of non-alphanumeric characters collapsed
Collapsed(name) == SubRuns(Lower(name), FALSE)

\* the identifier that belongs to a collapsed name
IdOfCollapsed(c) == IF StripChars(c, {"_"}) = <<>> THEN UNKNOWN ELSE StripChars(c, {"_"})

\* a step that imports a named row without an explicit person id
NamedRowStep(p) ==
    /\ th[p].pc = "rows"
    /\ th[p].kind \in PersonKinds
    /\ th'[p] # th[p]
    /\ ~Truthy(Get(th[p].rows[th[p].ri], "person_id"))
    /\ Truthy(RowFullName(th[p].kind, th[p].rows[th[p].ri]))

\* C22: a row without an explicit person id resolves to the Person entry
\* whose identifier is a function of the collapsed, lower-cased name alone
\* (not of the file, the year or the company), and it adds no other entry:
\* two rows whose names are equal after collapsing resolve to one entry.
C22_SameNameSamePerson ==
    [][\A p \in Threads : NamedRowStep(p) =>
          LET name == RowFullName(th[p].kind, th[p].rows[th[p].ri])
              id == IdOfCollapsed(Collapsed(name))
              before == heap[loader_lm].people
              after == heap'[loader_lm].people
          IN  /\ DOMAIN after = DOMAIN before \cup {id}
              /\ after[id].person_id = id
              /\ last_person'.slug = id]_vars

\* the row spelled " JANE--DOE " has resolved to the entry that the row
\* spelled "Jane Doe" created, and the repository holds that one entry
C22_Witness ==
    /\ last_person.id # 0
    /\ last_person.existed
    /\ last_person.args.bio_short = ExecJaneAgain.bio_short
    /\ last_person.slug = _slugify(JANE)
    /\ heap[last_person.id].people[last_person.slug].full_name = JANE
    /\ \A s \in DOMAIN heap[last_person.id].people :
          Collapsed(heap[last_person.id].people[s].full_name) = Collapsed(JANE)
             => s = last_person.slug

\* a status with surrounding blanks removed and lower-cased
NormalizedStatus(status) == IF status = NoneV THEN <<>> ELSE Lower(Strip(status))

\* C23: in every repository get_free_agents returns exactly the people
\* flagged executive or director whose status normalizes to "retired".
C23_FreeAgents ==
    \A id \in Instances :
       get_free_agents(heap[id]) =
          { s \in DOMAIN heap[id].people :
               /\ heap[id].people[s].is_executive \/ heap[id].people[s].is_director
               /\ NormalizedStatus(heap[id].people[s].status) = <<"r","e","t","i","r","e","d">> }

\* what the code does return: the people whose status is the exact text
\* "Retired", whatever their flags
C23_FreeAgentsExactText ==
    \A id \in Instances :
       get_free_agents(heap[id]) =
          { s \in DOMAIN heap[id].people : heap[id].people[s].status = <<"R","e","t","i","r","e","d">> }

\* the calendar year of a date
YearOfDate(d) == d \div 10000

\* the records of one list of the loader's repository that a step puts there
Added(list) ==
    { heap'[loader_lm][list][i] : i \in 1..Len(heap'[loader_lm][list]) }
    \ { heap[loader_lm][list][i] : i \in 1..Len(heap[loader_lm][list]) }

\* a step that imports a row of the given kind which has no value in its own
\* date column
UndatedRowStep(p, kind, column) ==
    /\ th[p].pc = "rows"
    /\ th[p].kind = kind
    /\ th'[p] # th[p]
    /\ ~Truthy(Get(th[p].rows[th[p].ri], column))

\* C24: a DirectorCompensation, equity-grant or beneficial-ownership record
\* imported from the partition of year Y from a row without a date of its
\* own is dated in year Y.
C24_UndatedRowsDatedInPartitionYear ==
    [][\A p \in Threads :
          LET Y == DigitsToNat(th[p].target_years[th[p].yi])
          IN  /\ UndatedRowStep(p, "director_compensation", "fiscal_year_end") =>
                    \A rec \in Added("director_comp") : YearOfDate(rec.fiscal_year_end) = Y
              /\ UndatedRowStep(p, "equity_grants", "grant_date") =>
                    \A rec \in Added("equity_grants") : YearOfDate(rec.grant_date) = Y
              /\ UndatedRowStep(p, "beneficial_ownership", "as_of_date") =>
                    \A rec \in Added("beneficial_ownership") : YearOfDate(rec.as_of_date) = Y]_vars

\* load_company_year of thread p is about to return after its second loop
PartitionCompletes(l) == l.pc = "files" /\ l.fi > Len(l.blobs)

\* C25: when load_company_year completes for a partition, the company of
\* the partition has a non-empty display name and a non-empty ticker,
\* whatever the manifest looked like.
C25_CompanyNamedAndTickered ==
    \A p \in Threads :
       PartitionCompletes(th[p]) =>
          LET company == heap[loader_lm].companies[th[p].company_slugs[th[p].ci]]
          IN  Truthy(company.company_name) /\ Truthy(company.ticker)

\* the case without any manifest file does satisfy it
C25_NoManifestNamed ==
    \A p \in Threads :
       PartitionCompletes(th[p]) /\ FirstManifest(th[p].blobs, 1) = 0 /\ th[p].ci = 1
                                 /\ th[p].yi = 1 =>
          LET company == heap[loader_lm].companies[th[p].company_slugs[th[p].ci]]
          IN  Truthy(company.company_name) /\ Truthy(company.ticker)

\* a step that imports a director row which has no value in a role or title
\* column, for a person the repository already knows
UntitledDirectorRowStep(p) ==
    /\ th[p].pc = "rows"
    /\ th[p].kind \in {"director_compensation", "director_profiles"}
    /\ th'[p] # th[p]
    /\ LET row == th[p].rows[th[p].ri]
       IN  /\ Truthy(DirectorFullName(row))
           /\ ~HasValue(row, "role") /\ ~HasValue(row, "title")
           /\ HasPerson(heap[loader_lm], PersonSlug(Get(row, "person_id"), DirectorFullName(row)))

\* C26: importing a director-compensation or director-profile row without a
\* role or title leaves the current title of an already-known person as it
\* was.
C26_UntitledDirectorRowKeepsTitle ==
    [][\A p \in Threads : UntitledDirectorRowStep(p) =>
          LET row == th[p].rows[th[p].ri]
              id == PersonSlug(Get(row, "person_id"), DirectorFullName(row))
          IN  heap'[loader_lm].people[id].current_title
                 = heap[loader_lm].people[id].current_title]_vars

(***************************************************************************)
(* Two request threads: refresh requests that overlap on the one loader.   *)
(***************************************************************************)
\* the stores of the overlap runs: one whose loads end in an error, one whose
\* loads succeed
OverlapStores ==
    { Acme2024Bare \o Bigco2024Short,
      Acme2024Rich }

\* the application is up after a module-level load whose discovery raised,
\* with the sample fallback off: the loader holds the empty instance of that
\* load, the application an empty repository of its own; no read fails from
\* here on and the history counters start here
InitOverlap ==
    /\ bucket \in OverlapStores
    /\ heap = <<NewLeagueManager, NewLeagueManager, NewLeagueManager>>
    /\ loader_lm = 2
    /\ load_warnings = <<>>
    /\ app_lm = 3
    /\ allow_fallback = FALSE
    /\ failures = MaxFailures
    /\ th = [p \in Threads |-> IdleLocals]
    /\ loads = 0
    /\ born = <<0, 0, 0>>
    /\ submitted = <<EmptyMap, EmptyMap, EmptyMap>>
    /\ last_person = NoCall
    /\ last_company = NoCall
    /\ served = NoCall
    /\ imports = <<>>
    /\ fortune = FortuneIdle

NextOverlap ==
    \/ \E p \in Threads : RefreshData(p, DEFAULT_YEAR, FALSE)
    \/ \E p \in Threads : Step(p)
    \/ \E p \in Threads : FinishRefresh(p)

SpecOverlap == InitOverlap /\ [][NextOverlap]_vars

\* thread p takes the step
Moves(p) == th'[p] # th[p]

\* C27: when refresh requests overlap on the loader, every step of an
\* invocation writes only to the repository that invocation created, the
\* result of an invocation carries that repository, and the repository a
\* request publishes is the one its own invocation created, which no other
\* invocation is still writing to at that moment.
C27_OverlappingReloadsIsolated ==
    [][\A p \in Threads :
          /\ Moves(p) /\ th[p].pc \in LoadingPcs =>
                \A i \in Instances : i # th[p].created => heap'[i] = heap[i]
          /\ Moves(p) /\ th[p].pc = "aggregate" =>
                th'[p].result.league_manager = th[p].created
          /\ Moves(p) /\ th[p].pc = "returned" /\ th[p].result.status = "success" =>
                /\ app_lm' = th[p].created
                /\ \A q \in Threads \ {p} : th[q].pc \in LoadingPcs => loader_lm # app_lm']_vars

\* load_company_year is entered by thread p from load_all_company_data
EntersPartition(p) ==
    /\ Moves(p)
    /\ th[p].pc = "partition"
    /\ th[p].caller # "api"

\* a company without a four-digit year folder has not been imported and is in
\* no repository a load has built
YearlessCompanyAbsent ==
    /\ \A p \in Threads :
          th[p].caller # "api" =>
             \A v \in th[p].visited : AvailableYears(v[1]) # {}
    /\ \A id \in Instances :
          born[id] # 0 => \A slug \in DOMAIN heap[id].companies : AvailableYears(slug) # {}

\* C28: every partition a load imports is a four-digit year folder that the
\* store holds for that company, no load imports a partition twice, and a
\* company without a four-digit year folder is never imported and never
\* appears in the repository of a load.
C28_DiscoveredPartitionsOnly ==
    [][/\ \A p \in Threads : EntersPartition(p) =>
             LET slug == th[p].company_slugs[th[p].ci]
                 year == th[p].target_years[th[p].yi]
             IN  /\ year \in AvailableYears(slug)
                 /\ <<slug, year>> \notin th[p].visited
        /\ YearlessCompanyAbsent']_vars

\* a load has succeeded on a store where discovery found big-co, which has
\* no year folder: acme was imported and is in the result, big-co is not
C28_Witness ==
    \E p \in Threads :
       /\ th[p].pc = "returned"
       /\ th[p].result.status = "success"
       /\ BIGCO \in Range(th[p].company_slugs)
       /\ AvailableYears(BIGCO) = {}
       /\ th[p].visited # {}
       /\ th[p].result.companies_loaded = {ACME}

FirstWriteTextFields == {"bio_short", "linkedin_url", "photo_url", "education"}

\* a step in which _ensure_person is called for a person the loader's
\* repository already holds
MergesPerson(p) ==
    /\ Moves(p)
    /\ th[p].pc = "rows"
    /\ th[p].kind \in PersonKinds
    /\ Truthy(RowFullName(th[p].kind, th[p].rows[th[p].ri]))
    /\ last_person'.slug \in DOMAIN heap[loader_lm].people

\* C29: in a call of _ensure_person for an existing person, a biography,
\* LinkedIn URL, photo URL, education or years of experience that already
\* holds a non-empty value stays as it is, whatever the call supplies, and a
\* non-empty current title or status supplied by the call replaces the old.
C29_FirstWriteWinsButTitleAndStatus ==
    [][\A p \in Threads : MergesPerson(p) =>
          LET before == heap[loader_lm].people[last_person'.slug]
              after == heap'[loader_lm].people[last_person'.slug]
              a == last_person'.args
          IN  /\ \A f \in FirstWriteTextFields : Truthy(before[f]) => after[f] = before[f]
              /\ TruthyInt(before.years_experience)
                    => after.years_experience = before.years_experience
              /\ Truthy(a.current_title) => after.current_title = a.current_title
              /\ Truthy(a.status) => after.status = a.status]_vars

\* a person with 20 years of experience, title and status met a row with 30
\* years, another title and another status: the years stayed, title and
\* status are the row's
C29_Witness ==
    /\ last_person.id # 0
    /\ last_person.existed
    /\ last_person.before.years_experience = 20
    /\ last_person.args.years_experience = 30
    /\ last_person.before.status = <<"R","e","t","i","r","e","d">>
    /\ last_person.args.status = <<"A","c","t","i","v","e">>
    /\ last_person.before.current_title # last_person.args.current_title
    /\ LET after == heap[last_person.id].people[last_person.slug]
       IN  /\ after.years_experience = 20
           /\ after.status = <<"A","c","t","i","v","e">>
           /\ after.current_title = <<"C","h","a","i","r">>

(***************************************************************************)
(* load_fortune10_league, step by step.                                    *)
(***************************************************************************)
Unchanged_Loader ==
    UNCHANGED <<bucket, allow_fallback, heap, loader_lm, load_warnings, app_lm, th, failures,
                loads, born, submitted, last_person, last_company, served, imports>>

\* the loader exists, no load is running; build_data returns one of the
\* datasets
InitFortune ==
    /\ bucket = <<>>
    /\ allow_fallback = TRUE
    /\ heap = <<NewLeagueManager>>
    /\ loader_lm = 1
    /\ load_warnings = <<>>
    /\ app_lm = 0
    /\ th = [p \in Threads |-> IdleLocals]
    /\ failures = 0
    /\ loads = 0
    /\ born = <<0>>
    /\ submitted = <<EmptyMap>>
    /\ last_person = NoCall
    /\ last_company = NoCall
    /\ served = NoCall
    /\ imports = <<>>
    /\ \E data \in SourceDatasets : fortune = [FortuneIdle EXCEPT !.source_companies = data]

\* load_fortune10_league up to its loop over the source companies
LoadFortune10League ==
    /\ fortune.pc = "idle"
    /\ fortune' = IF fortune.source_companies = <<>>
                  THEN [fortune EXCEPT !.pc = "failed"]
                  ELSE [fortune EXCEPT
                           !.pc = "company",
                           !.league = NewLeague,
                           !.available_years = _extract_years(fortune.source_companies),
                           !.next_person_id = FirstBoardId(fortune.source_companies),
                           !.ci = 1]
    /\ Unchanged_Loader

\* the head of the loop: the league company is built and added
AddFortuneCompany ==
    /\ fortune.pc = "company"
    /\ fortune' = IF fortune.ci > Len(fortune.source_companies)
                  THEN [fortune EXCEPT !.pc = "done"]
                  ELSE [fortune EXCEPT
                           !.league = add_company(@, LeagueCompanyOf(fortune.source_companies[fortune.ci])),
                           !.ei = 1,
                           !.pc = "executives"]
    /\ Unchanged_Loader

\* _ensure_person and _add_roles_for_person for one executive
EnsureExecutive ==
    LET source_company == fortune.source_companies[fortune.ci]
        source_person == source_company.executives[fortune.ei]
        l1 == IF source_person.person_id \in DOMAIN fortune.league.people
              THEN fortune.league
              ELSE add_person(fortune.league, LeaguePersonOf(source_person, 52))
    IN  /\ fortune.pc = "executives"
        /\ fortune.ei <= Len(source_company.executives)
        /\ fortune' = [fortune EXCEPT
                          !.league = _add_roles_for_person(l1, source_company.company_id,
                                                           source_person.person_id,
                                                           source_person.roles),
                          !.ei = @ + 1]
        /\ Unchanged_Loader

\* _add_board_members is entered: the two sets of names are taken
EnterAddBoardMembers ==
    LET source_company == fortune.source_companies[fortune.ci]
        league_company == fortune.league.companies[source_company.company_id]
    IN  /\ fortune.pc = "executives"
        /\ fortune.ei > Len(source_company.executives)
        /\ fortune' = [fortune EXCEPT
                          !.existing_company_names =
                              { fortune.league.people[id].name : id \in Range(league_company.board_members) },
                          !.existing_league_names =
                              { fortune.league.people[id].name : id \in DOMAIN fortune.league.people },
                          !.bi = 1,
                          !.pc = "board"]
        /\ Unchanged_Loader

\* one turn of the loop of _add_board_members
AddBoardMember ==
    LET source_company == fortune.source_companies[fortune.ci]
        clean_name == Strip(source_company.board_members[fortune.bi])
        person == BoardPerson(fortune.next_person_id, clean_name)
        role == BoardRole(person.person_id, source_company.company_id,
                          MaxOf(fortune.available_years))
    IN  /\ fortune.pc = "board"
        /\ fortune.bi <= Len(source_company.board_members)
        /\ fortune' = IF \/ clean_name \in fortune.existing_company_names
                         \/ clean_name \in fortune.existing_league_names
                      THEN [fortune EXCEPT !.bi = @ + 1]
                      ELSE [fortune EXCEPT
                               !.league = add_role(add_person(@, person), role),
                               !.next_person_id = @ + 1,
                               !.existing_company_names = @ \cup {clean_name},
                               !.existing_league_names = @ \cup {clean_name},
                               !.bi = @ + 1]
        /\ Unchanged_Loader

\* _add_board_members returns; the loop goes to the next source company
ReturnFromBoardMembers ==
    /\ fortune.pc = "board"
    /\ fortune.bi > Len(fortune.source_companies[fortune.ci].board_members)
    /\ fortune' = [fortune EXCEPT !.ci = @ + 1, !.pc = "company"]
    /\ Unchanged_Loader

NextFortune ==
    \/ LoadFortune10League
    \/ AddFortuneCompany
    \/ EnsureExecutive
    \/ EnterAddBoardMembers
    \/ AddBoardMember
    \/ ReturnFromBoardMembers

SpecFortune == InitFortune /\ [][NextFortune]_vars

\* the people that _add_board_members has created
BoardPeople(league) ==
    { id \in DOMAIN league.people : league.people[id].education = BOARD_CERTIFIED }

\* C30: in load_fortune10_league every person created for a board member has
\* an identifier greater than every executive identifier of every source
\* company, no step replaces or removes an entry of the people map (so the
\* board members' identifiers are distinct), and every role of the league
\* names a person and a company that are in the league.
C30_BoardIdsFresh ==
    [][LET old == fortune.league
           new == fortune'.league
       IN  /\ \A id \in BoardPeople(new) :
                 \A e \in SourceExecutives(fortune.source_companies) : id > e.person_id
           /\ fortune'.pc # "company" \/ fortune.pc # "idle" =>
                 \A id \in DOMAIN old.people :
                    /\ id \in DOMAIN new.people
                    /\ new.people[id].name = old.people[id].name
                    /\ IsPrefix(old.people[id].roles, new.people[id].roles)
           /\ fortune.pc = "board" /\ DOMAIN new.people # DOMAIN old.people =>
                 /\ fortune.next_person_id \notin DOMAIN old.people
                 /\ DOMAIN new.people = DOMAIN old.people \cup {fortune.next_person_id}
           /\ \A i \in 1..Len(new.all_roles) :
                 /\ new.all_roles[i].person_id \in DOMAIN new.people
                 /\ new.all_roles[i].company_id \in DOMAIN new.companies]_vars

\* the league is complete for a dataset whose executives have the ids 1, 3
\* and 7: it holds at least three board members, all with ids above 7, next
\* to the executives
C30_Witness ==
    /\ fortune.pc = "done"
    /\ {1, 3, 7} \subseteq DOMAIN fortune.league.people
    /\ Cardinality(BoardPeople(fortune.league)) >= 3
    /\ \A id \in BoardPeople(fortune.league) : id > 7
    /\ \E i \in 1..Len(fortune.league.all_roles) :
          fortune.league.all_roles[i].person_id \in BoardPeople(fortune.league)

====
